---- MODULE Spec2Model ----
(***************************************************************************)
(* Docufy ingestion pipeline (backend/watch.py, backend/watch_api.py):     *)
(* the watch registry, the per-observer callback threads, the dedup set,   *)
(* the work queue and the worker loop, as interleaved threads.  Every      *)
(* action is one step a thread takes between two points where the          *)
(* interpreter may switch threads.                                         *)
(***************************************************************************)
EXTENDS Integers, Sequences, FiniteSets, TLC

VARIABLES
    OBSERVERS,        \* _OBSERVERS: key -> observer id            (watch.py:20)
    observer,         \* every Observer() ever constructed, by id   (watch.py:97)
    api,              \* the threads calling start / stop / request_shutdown
    cb,               \* the callback (dispatcher) thread of each observer
    evq,              \* the event queue of each observer
    SEEN_HASHES,      \* _SEEN_HASHES                               (watch.py:22)
    WORK_Q,           \* _WORK_Q                                    (watch.py:19)
    unfinished_tasks, \* _WORK_Q's count of unfinished tasks
    STOP,             \* _STOP                                      (watch.py:21)
    wk,               \* the thread running worker_loop
    move_original,    \* worker_loop's move_original argument
    default_out_dir,  \* what worker_loop's out_dir argument gives when asked
    fs,               \* the files on disk: path -> data
    writing,          \* the files an external producer is still writing
    arrivals,         \* number of files that have arrived so far
    enqueued,         \* history: every Job ever put on _WORK_Q
    dropped,          \* history: the events dropped as dedup hits
    processed,        \* history: every Job ever taken off _WORK_Q
    JOBS,             \* webhook_api.JOBS: job_id -> status, result, error
    task              \* run_job of every webhook job: position and locals

regVars   == <<OBSERVERS, observer, api>>
watchVars == <<cb, evq, SEEN_HASHES, enqueued, dropped>>
queueVars == <<WORK_Q, unfinished_tasks>>
webVars   == <<JOBS, task>>
hostVars  == <<move_original, default_out_dir, webVars>>
workVars  == <<wk, hostVars, processed>>
envVars   == <<fs, writing, arrivals>>
vars == <<OBSERVERS, observer, api, cb, evq, SEEN_HASHES, WORK_Q,
          unfinished_tasks, STOP, wk, move_original, default_out_dir, fs,
          writing, arrivals, enqueued, dropped, processed, JOBS, task>>

(***************************************************************************)
(* Bounds of the model.                                                    *)
(***************************************************************************)
MaxObs == 2          \* Observer objects constructed in one run
MaxArrivals == 2     \* files arriving in the watched folders in one run
MaxOld == 2          \* highest number among the names left in Processed before
FullSize == 2        \* size of a completely written file

None == "None"

Threads  == {"t1", "t2"}
Folders  == {"A", "B"}
OutDirs  == {None, "O2"}

(***************************************************************************)
(* Paths.  A path is its parent directory, its stem and its suffix, as     *)
(* pathlib's Path.parent, Path.stem and Path.suffix give them.             *)
(***************************************************************************)
PathOf(parent, stem, suffix) ==
    [parent |-> parent, stem |-> stem, suffix |-> suffix]

PathName(p) == p.stem \o p.suffix

(***************************************************************************)
(* watch_api.start: recipe_ref and the key.                                *)
(***************************************************************************)
RecipeRef(recipe_id, recipe_path) ==
    IF recipe_path # None THEN recipe_path ELSE recipe_id

Key(folder, recipe_ref) == folder \o "|" \o recipe_ref

active_watches == DOMAIN OBSERVERS

\* active_watches() builds its result in a loop over _OBSERVERS.keys(), and
\* the interpreter may switch threads inside that loop.  The iterator notes
\* the size of the dict when it is created (used) and raises RuntimeError
\* ("dictionary changed size during iteration") when it finds another size.
\* Whether a dict that was empty when the iterator was created leaves a
\* window depends on the interpreter's version: both outcomes are taken.
IterationRaises(used) ==
    IF Cardinality(DOMAIN OBSERVERS) = used THEN {FALSE}
    ELSE IF used = 0 THEN BOOLEAN
    ELSE {TRUE}

NoRet == [status |-> None, key |-> None]

\* The locals of a call; used is the size the iterator of active_watches()
\* noted, active the list GET /watch/status returned.
IdleCall == [pc |-> "idle", op |-> None, folder |-> None, recipe_ref |-> None,
             out_dir |-> None, key |-> None, obs |-> 0, todo |-> {},
             used |-> 0, active |-> {}, ret |-> NoRet]

Ret(status, key) ==
    [IdleCall EXCEPT !.ret = [status |-> status, key |-> key]]

NewObserver(a) ==
    [key |-> a.key, folder |-> a.folder, recipe_ref |-> a.recipe_ref,
     out_dir |-> a.out_dir, state |-> "running"]

\* The locals of a callback; reads is history: the sizes _file_is_stable has
\* read so far.
IdleCb == [pc |-> "idle", ev |-> None, last |-> -1, stable |-> 0,
           reads |-> <<>>, digest |-> None]

\* Calls that may still construct an Observer.
Starting == {t \in Threads : api[t].pc \in {"start_check", "start_watch"}}

(***************************************************************************)
(* POST /watch/start                                                       *)
(***************************************************************************)
StartCall(t, folder, recipe_id, recipe_path, out_dir) ==
    /\ api[t].pc = "idle"
    /\ Len(observer) + Cardinality(Starting) < MaxObs
    /\ IF recipe_id = None /\ recipe_path = None
       THEN api' = [api EXCEPT ![t] = Ret("400", None)]
       ELSE api' = [api EXCEPT ![t] =
                [IdleCall EXCEPT
                    !.pc = "start_check", !.op = "start",
                    !.folder = folder,
                    !.recipe_ref = RecipeRef(recipe_id, recipe_path),
                    !.out_dir = out_dir,
                    !.key = Key(folder, RecipeRef(recipe_id, recipe_path)),
                    !.used = Cardinality(DOMAIN OBSERVERS)]]
    /\ UNCHANGED <<OBSERVERS, observer, watchVars, queueVars, STOP, workVars,
                   envVars>>

\* The check of line 37 alone (the mutant of AlreadyWatching: no check).
AlreadyWatchingNever(key) == FALSE

\* Every key taken as registered (the other mutant of AlreadyWatching).
AlreadyWatchingAlways(key) == TRUE

AlreadyWatching(key) == key \in active_watches

\* Line 37, from the end of the loop of active_watches() on; the RuntimeError
\* is raised outside the try of line 39 and leaves start (HTTP 500).
StartCheck(t) ==
    /\ api[t].pc = "start_check"
    /\ \E raises \in IterationRaises(api[t].used) :
        IF raises
        THEN api' = [api EXCEPT ![t] = Ret("500", None)]
        ELSE IF AlreadyWatching(api[t].key)
        THEN api' = [api EXCEPT ![t] = Ret("already_watching", api[t].key)]
        ELSE api' = [api EXCEPT ![t].pc = "start_watch", ![t].used = 0]
    /\ UNCHANGED <<OBSERVERS, observer, watchVars, queueVars, STOP, workVars,
                   envVars>>

\* start_watch up to obs.start(): mkdir, Observer(), schedule, start.  Any of
\* them may raise; start turns that into a 400 and nothing is registered.
StartWatch(t) ==
    /\ api[t].pc = "start_watch"
    /\ \E ok \in BOOLEAN :
        IF ok
        THEN /\ observer' = Append(observer, NewObserver(api[t]))
             /\ cb' = Append(cb, IdleCb)
             /\ evq' = Append(evq, <<>>)
             /\ api' = [api EXCEPT ![t].pc = "register",
                                   ![t].obs = Len(observer) + 1]
        ELSE /\ api' = [api EXCEPT ![t] = Ret("400", None)]
             /\ UNCHANGED <<observer, cb, evq>>
    /\ UNCHANGED <<OBSERVERS, SEEN_HASHES, enqueued, dropped, queueVars, STOP,
                   workVars, envVars>>

\* _OBSERVERS[key] = obs
Register(t) ==
    /\ api[t].pc = "register"
    /\ OBSERVERS' = [k \in DOMAIN OBSERVERS \cup {api[t].key} |->
                        IF k = api[t].key THEN api[t].obs ELSE OBSERVERS[k]]
    /\ api' = [api EXCEPT ![t] = Ret("watching", api[t].key)]
    /\ UNCHANGED <<observer, watchVars, queueVars, STOP, workVars, envVars>>

(***************************************************************************)
(* POST /watch/stop, stop_watch, stop_all_watches, request_shutdown        *)
(***************************************************************************)
StopCall(t, key) ==
    /\ api[t].pc = "idle"
    /\ api' = [api EXCEPT ![t] =
                [IdleCall EXCEPT !.pc = "stop_check", !.op = "stop",
                                 !.key = key,
                                 !.used = Cardinality(DOMAIN OBSERVERS)]]
    /\ UNCHANGED <<OBSERVERS, observer, watchVars, queueVars, STOP, workVars,
                   envVars>>

\* The test of line 48 lost (the mutant of NotActive): stop_watch always runs.
NotActiveNever(key) == FALSE

\* req.key not in active_watches().keys()
NotActive(key) == key \notin active_watches

\* Line 48, from the end of the loop of active_watches() on.
StopCheck(t) ==
    /\ api[t].pc = "stop_check"
    /\ \E raises \in IterationRaises(api[t].used) :
        IF raises
        THEN api' = [api EXCEPT ![t] = Ret("500", None)]
        ELSE IF NotActive(api[t].key)
        THEN api' = [api EXCEPT ![t] = Ret("not_active", None)]
        ELSE api' = [api EXCEPT ![t].pc = "stop_pop", ![t].used = 0]
    /\ UNCHANGED <<OBSERVERS, observer, watchVars, queueVars, STOP, workVars,
                   envVars>>

(***************************************************************************)
(* GET /watch/status                                                       *)
(***************************************************************************)
\* status is called: active_watches() starts its loop over the registry.
StatusCall(t) ==
    /\ api[t].pc = "idle"
    /\ api' = [api EXCEPT ![t] =
                [IdleCall EXCEPT !.pc = "status_check", !.op = "status",
                                 !.used = Cardinality(DOMAIN OBSERVERS)]]
    /\ UNCHANGED <<OBSERVERS, observer, watchVars, queueVars, STOP, workVars,
                   envVars>>

\* The end of the loop: {"active": list(active_watches().keys())}, or the
\* RuntimeError of the iterator.
StatusCheck(t) ==
    /\ api[t].pc = "status_check"
    /\ \E raises \in IterationRaises(api[t].used) :
        IF raises
        THEN api' = [api EXCEPT ![t] = Ret("500", None)]
        ELSE api' = [api EXCEPT ![t] =
                        [Ret("active", None) EXCEPT !.active = active_watches]]
    /\ UNCHANGED <<OBSERVERS, observer, watchVars, queueVars, STOP, workVars,
                   envVars>>

\* Where stop_watch returns to: stop's response, or stop_all_watches' loop.
StopReturn(a) ==
    IF a.op = "stop"
    THEN Ret("stopped", a.key)
    ELSE [a EXCEPT !.pc = "stop_all_next", !.obs = 0]

\* obs = _OBSERVERS.pop(key, None)
StopPop(t) ==
    /\ api[t].pc = "stop_pop"
    /\ IF api[t].key \in DOMAIN OBSERVERS
       THEN /\ OBSERVERS' = [k \in DOMAIN OBSERVERS \ {api[t].key} |->
                                OBSERVERS[k]]
            /\ api' = [api EXCEPT ![t].pc = "obs_stop",
                                  ![t].obs = OBSERVERS[api[t].key]]
       ELSE /\ api' = [api EXCEPT ![t] = StopReturn(api[t])]
            /\ UNCHANGED OBSERVERS
    /\ UNCHANGED <<observer, watchVars, queueVars, STOP, workVars, envVars>>

\* obs.stop(): the dispatcher thread leaves its loop after the callback it is
\* in; a thread that already died of an exception has nothing left to stop.
ObsStop(t) ==
    /\ api[t].pc = "obs_stop"
    /\ observer' = [observer EXCEPT ![api[t].obs].state =
                        IF @ = "running" THEN "stopping" ELSE "terminated"]
    /\ api' = [api EXCEPT ![t].pc = "obs_join"]
    /\ UNCHANGED <<OBSERVERS, watchVars, queueVars, STOP, workVars, envVars>>

\* obs.join(): returns once the dispatcher thread has terminated.
ObsJoin(t) ==
    /\ api[t].pc = "obs_join"
    /\ observer[api[t].obs].state = "terminated"
    /\ api' = [api EXCEPT ![t] = StopReturn(api[t])]
    /\ UNCHANGED <<OBSERVERS, observer, watchVars, queueVars, STOP, workVars,
                   envVars>>

\* request_shutdown: _STOP.set(), then stop_all_watches().
RequestShutdown(t) ==
    /\ api[t].pc = "idle"
    /\ ~STOP
    /\ STOP' = TRUE
    /\ api' = [api EXCEPT ![t] =
                [IdleCall EXCEPT !.pc = "stop_all", !.op = "shutdown"]]
    /\ UNCHANGED <<OBSERVERS, observer, watchVars, queueVars, workVars,
                   envVars>>

\* list(_OBSERVERS.keys())
StopAllList(t) ==
    /\ api[t].pc = "stop_all"
    /\ api' = [api EXCEPT ![t].pc = "stop_all_next",
                          ![t].todo = DOMAIN OBSERVERS]
    /\ UNCHANGED <<OBSERVERS, observer, watchVars, queueVars, STOP, workVars,
                   envVars>>

\* for k in ...: stop_watch(k)
StopAllNext(t) ==
    /\ api[t].pc = "stop_all_next"
    /\ IF api[t].todo = {}
       THEN api' = [api EXCEPT ![t] = Ret("shutdown", None)]
       ELSE \E k \in api[t].todo :
                api' = [api EXCEPT ![t].pc = "stop_pop", ![t].key = k,
                                   ![t].todo = @ \ {k}]
    /\ UNCHANGED <<OBSERVERS, observer, watchVars, queueVars, STOP, workVars,
                   envVars>>

(***************************************************************************)
(* The dispatcher thread of an observer leaves its loop once stop() was    *)
(* called and no callback is running; the events still queued are dropped. *)
(***************************************************************************)
Terminate(o) ==
    /\ observer[o].state = "stopping"
    /\ cb[o].pc = "idle"
    /\ observer' = [observer EXCEPT ![o].state = "terminated"]
    /\ evq' = [evq EXCEPT ![o] = <<>>]
    /\ UNCHANGED <<OBSERVERS, api, cb, SEEN_HASHES, enqueued, dropped, queueVars, STOP,
                   workVars, envVars>>

(***************************************************************************)
(* Files.  The data of a file is its content and its current size; a file  *)
(* still being written has a size below FullSize.                          *)
(***************************************************************************)
ALLOWED_EXTS == {".pdf", ".png", ".jpg", ".jpeg", ".tif", ".tiff"}

\* str.lower() on the suffixes the model uses.
Lower(s) == CASE s = ".PDF" -> ".pdf" [] s = ".TMP" -> ".tmp" [] OTHER -> s

\* name.startswith("~$"), on the stems the model uses.
TempPrefixed(p) == p.stem \in {"~$a"}

IsFile(fsys, p) == p \in DOMAIN fsys

\* A write that leaves an existing file as it is (the mutant of FsPut).
FsPutIfAbsent(fsys, p, d) ==
    [q \in DOMAIN fsys \cup {p} |-> IF q \in DOMAIN fsys THEN fsys[q] ELSE d]

FsPut(fsys, p, d) ==
    [q \in DOMAIN fsys \cup {p} |-> IF q = p THEN d ELSE fsys[q]]

FsRemove(fsys, p) == [q \in DOMAIN fsys \ {p} |-> fsys[q]]

\* hashlib.sha1 over the bytes on disk: collision-free on the model's files,
\* whose bytes are determined by the content and the size written so far.
Sha1(d) == <<"sha1", d.c, d.sz>>

EventPath(ev) == IF ev.typ = "moved" THEN ev.dest_path ELSE ev.src_path

NewEvent(typ, p) ==
    [typ |-> typ,
     src_path |-> IF typ = "moved" THEN PathOf("elsewhere", p.stem, p.suffix)
                  ELSE p,
     dest_path |-> IF typ = "moved" THEN p ELSE None,
     stamp |-> Len(enqueued),   \* history: Jobs produced before the event
     seq |-> arrivals]          \* history: events emitted before the event

\* An emitter that outlives stop() (the mutant of Emitting).
EmittingForEver(o) == TRUE

\* The emitter of an observer queues events until stop() is called.
Emitting(o) == observer[o].state \in {"running", "crashed"}

Deliver(folder, ev) ==
    evq' = [o \in DOMAIN evq |->
                IF observer[o].folder = folder /\ Emitting(o)
                THEN Append(evq[o], ev) ELSE evq[o]]

(***************************************************************************)
(* The environment: a file arrives in a watched folder (created there or   *)
(* moved in), its producer goes on writing, the OS notifies again, a user  *)
(* deletes an inbox file.                                                  *)
(***************************************************************************)
Arrive(folder, stem, suffix, c, sz, typ) ==
    LET p == PathOf(folder, stem, suffix) IN
    /\ arrivals < MaxArrivals
    /\ \E o \in DOMAIN observer : observer[o].folder = folder /\ Emitting(o)
    /\ ~IsFile(fs, p)
    /\ fs' = FsPut(fs, p, [c |-> c, sz |-> sz])
    /\ writing' = IF sz < FullSize THEN writing \cup {p} ELSE writing
    /\ arrivals' = arrivals + 1
    /\ Deliver(folder, NewEvent(typ, p))
    /\ UNCHANGED <<regVars, cb, SEEN_HASHES, enqueued, dropped, queueVars, STOP,
                   workVars>>

Renotify(p, typ) ==
    /\ arrivals < MaxArrivals
    /\ IsFile(fs, p)
    /\ p.parent \in Folders
    /\ \E o \in DOMAIN observer :
            observer[o].folder = p.parent /\ Emitting(o)
    /\ arrivals' = arrivals + 1
    /\ Deliver(p.parent, NewEvent(typ, p))
    /\ UNCHANGED <<regVars, cb, SEEN_HASHES, enqueued, dropped, queueVars, STOP,
                   workVars, fs, writing>>

\* A directory is created in the watched folder: an event for a path that is
\* no regular file (fs holds the regular files only).
ArriveDir(folder, stem, suffix) ==
    /\ arrivals < MaxArrivals
    /\ \E o \in DOMAIN observer : observer[o].folder = folder /\ Emitting(o)
    /\ ~IsFile(fs, PathOf(folder, stem, suffix))
    /\ arrivals' = arrivals + 1
    /\ Deliver(folder, NewEvent("created", PathOf(folder, stem, suffix)))
    /\ UNCHANGED <<regVars, cb, SEEN_HASHES, enqueued, dropped, queueVars, STOP,
                   workVars, fs, writing>>

Write(p) ==
    /\ p \in writing
    /\ fs' = [fs EXCEPT ![p].sz = @ + 1]
    /\ writing' = IF fs[p].sz + 1 >= FullSize THEN writing \ {p} ELSE writing
    /\ UNCHANGED <<regVars, watchVars, queueVars, STOP, workVars, arrivals>>

\* A producer that never finishes: the file has another size at every look.
Rewrite(p) ==
    /\ IsFile(fs, p)
    /\ p \in writing
    /\ fs' = [fs EXCEPT ![p].sz = IF @ = 1 THEN 2 ELSE 1]
    /\ UNCHANGED <<regVars, watchVars, queueVars, STOP, workVars, writing,
                   arrivals>>

\* A file of a watched folder is modified in place: its content changes and
\* the OS reports a modification.
Modify(p, c) ==
    /\ arrivals < MaxArrivals
    /\ IsFile(fs, p)
    /\ p.parent \in Folders
    /\ fs[p].c # c
    /\ \E o \in DOMAIN observer :
            observer[o].folder = p.parent /\ Emitting(o)
    /\ fs' = [fs EXCEPT ![p].c = c]
    /\ arrivals' = arrivals + 1
    /\ Deliver(p.parent, NewEvent("modified", p))
    /\ UNCHANGED <<regVars, cb, SEEN_HASHES, enqueued, dropped, queueVars, STOP,
                   workVars, writing>>

Delete(p) ==
    /\ IsFile(fs, p)
    /\ p.parent \in Folders
    /\ fs' = FsRemove(fs, p)
    /\ writing' = writing \ {p}
    /\ UNCHANGED <<regVars, watchVars, queueVars, STOP, workVars, arrivals>>

(***************************************************************************)
(* The callback thread of observer o: on_created / on_moved and            *)
(* _maybe_enqueue, one action per step.                                    *)
(***************************************************************************)
\* One dispatcher thread for all observers, busy while any handler runs (the
\* mutant of Ready).
ReadyTogether(o) == \A u \in DOMAIN cb : cb[u].pc \in {"idle", "dead"}

\* Every Observer() is a thread of its own (watch.py:97), which calls its
\* handler for one event after the other.
Ready(o) == cb[o].pc = "idle"

\* A handler that takes every event for a file (the mutant of Handles).
HandlesAnyEvent(ev) == TRUE

\* _InboxHandler overrides on_created and on_moved only: the handlers it
\* inherits for every other event do nothing.
Handles(ev) == ev.typ \in {"created", "moved"}

\* The dispatcher takes the next event and calls the handler.
Dispatch(o) ==
    /\ observer[o].state = "running"
    /\ Ready(o)
    /\ evq[o] # <<>>
    /\ cb' = IF Handles(Head(evq[o]))
             THEN [cb EXCEPT ![o] = [IdleCb EXCEPT !.pc = "is_file",
                                                   !.ev = Head(evq[o])]]
             ELSE cb
    /\ evq' = [evq EXCEPT ![o] = Tail(@)]
    /\ UNCHANGED <<regVars, SEEN_HASHES, enqueued, dropped, queueVars, STOP, workVars,
                   envVars>>

\* The error taken for an empty file and the callback going on (the mutant of
\* Raised).
RaisedAsEmptyFile(o) ==
    /\ cb' = [cb EXCEPT ![o].pc = "check", ![o].digest = <<"sha1", "", 0>>]
    /\ UNCHANGED <<observer, evq>>

\* An exception leaves the callback: nothing in the dispatcher's loop catches
\* it, so the thread ends with the observer still registered.
Raised(o) ==
    /\ cb' = [cb EXCEPT ![o].pc = "dead"]
    /\ observer' = [observer EXCEPT ![o].state =
                        IF @ = "stopping" THEN "terminated" ELSE "crashed"]
    /\ evq' = IF observer[o].state = "stopping"
              THEN [evq EXCEPT ![o] = <<>>] ELSE evq

\* Every regular file taken (the mutant of Accepts).
AcceptsAnyFile(fsys, p) == IsFile(fsys, p)

\* Lines 66-72: is_file, the allow-list, the temp-file conventions.
Accepts(fsys, p) ==
    /\ IsFile(fsys, p)
    /\ Lower(p.suffix) \in ALLOWED_EXTS
    /\ ~(Lower(p.suffix) \in {".tmp", ".part"} \/ TempPrefixed(p))

Filter(o) ==
    /\ cb[o].pc = "is_file"
    /\ cb' = [cb EXCEPT ![o] =
                IF Accepts(fs, EventPath(cb[o].ev))
                THEN [@ EXCEPT !.pc = "probe", !.last = -1, !.stable = 0]
                ELSE IdleCb]
    /\ UNCHANGED <<regVars, evq, SEEN_HASHES, enqueued, dropped, queueVars, STOP,
                   workVars, envVars>>

\* _file_is_stable's default: checks = 2.
checks == 2

\* How many of the last readings the history keeps.
Window == checks + 2

Keep(reads, sz) ==
    IF Len(reads) < Window THEN Append(reads, sz)
    ELSE Append(Tail(reads), sz)

\* A counter that counts every reading (the mutant of Stable).
StableCountsAll(sz, last, stable) == stable + 1

\* Lines 41-45: the counter after the reading sz.
Stable(sz, last, stable) == IF sz = last THEN stable + 1 ELSE 0

\* One iteration of _file_is_stable's loop: stat, compare, sleep.
Poll(o) ==
    LET p == EventPath(cb[o].ev) IN
    /\ cb[o].pc = "probe"
    /\ IF ~IsFile(fs, p)
       THEN Raised(o)
       ELSE LET sz == fs[p].sz
                st == Stable(sz, cb[o].last, cb[o].stable)
            IN /\ cb' = [cb EXCEPT ![o].stable = st, ![o].last = sz,
                                   ![o].reads = Keep(@, sz),
                                   ![o].pc = IF st < checks THEN "probe"
                                             ELSE "hash"]
               /\ UNCHANGED <<observer, evq>>
    /\ UNCHANGED <<OBSERVERS, api, SEEN_HASHES, enqueued, dropped, queueVars, STOP,
                   workVars, envVars>>

\* digest = _sha1(p)
Hash(o) ==
    LET p == EventPath(cb[o].ev) IN
    /\ cb[o].pc = "hash"
    /\ IF ~IsFile(fs, p)
       THEN Raised(o)
       ELSE /\ cb' = [cb EXCEPT ![o].digest = Sha1(fs[p]), ![o].pc = "check"]
            /\ UNCHANGED <<observer, evq>>
    /\ UNCHANGED <<OBSERVERS, api, SEEN_HASHES, enqueued, dropped, queueVars, STOP,
                   workVars, envVars>>

\* The dedup test without the set (the mutant of Seen).
SeenNever(digest, seen) == FALSE

\* A dedup test that holds only while a Job of the fingerprint waits on the
\* queue (the mutant of Seen).
SeenWhilePending(digest, seen) ==
    /\ digest \in seen
    /\ \E i \in DOMAIN WORK_Q : WORK_Q[i].sha1 = digest

\* digest in _SEEN_HASHES
Seen(digest, seen) == digest \in seen

Check(o) ==
    /\ cb[o].pc = "check"
    /\ IF Seen(cb[o].digest, SEEN_HASHES)
       THEN /\ cb' = [cb EXCEPT ![o] = IdleCb]
            /\ dropped' = dropped \cup {[obs |-> o, ev |-> cb[o].ev,
                                         digest |-> cb[o].digest]}
       ELSE /\ cb' = [cb EXCEPT ![o].pc = "add"]
            /\ UNCHANGED dropped
    /\ UNCHANGED <<regVars, evq, SEEN_HASHES, enqueued, queueVars, STOP,
                   workVars, envVars>>

\* The insertion lost (the mutant of Add).
AddNoInsert(o) ==
    /\ cb[o].pc = "add"
    /\ cb' = [cb EXCEPT ![o].pc = "put"]
    /\ UNCHANGED <<regVars, evq, SEEN_HASHES, enqueued, dropped, queueVars,
                   STOP, workVars, envVars>>

\* _SEEN_HASHES.add(digest)
Add(o) ==
    /\ cb[o].pc = "add"
    /\ SEEN_HASHES' = SEEN_HASHES \cup {cb[o].digest}
    /\ cb' = [cb EXCEPT ![o].pc = "put"]
    /\ UNCHANGED <<regVars, evq, enqueued, dropped, queueVars, STOP, workVars,
                   envVars>>

\* Job(path=str(p), recipe_ref=self.recipe_ref, sha1=digest, out_dir=...)
NewJob(o, t) ==
    [path |-> EventPath(t.ev), recipe_ref |-> o.recipe_ref,
     sha1 |-> t.digest, out_dir |-> o.out_dir]

\* A put at the head of the queue (the mutant of QPut).
QPutFront(q, job) == <<job>> \o q

\* queue.Queue.put: the item goes to the tail.
QPut(q, job) == Append(q, job)

\* _WORK_Q.put(Job(...))
Put(o) ==
    /\ cb[o].pc = "put"
    /\ WORK_Q' = QPut(WORK_Q, NewJob(observer[o], cb[o]))
    /\ unfinished_tasks' = unfinished_tasks + 1
    /\ enqueued' = Append(enqueued, [job |-> NewJob(observer[o], cb[o]),
                                     obs |-> o, stamp |-> cb[o].ev.stamp,
                                     seq |-> cb[o].ev.seq,
                                     dflt |-> default_out_dir,
                                     stop |-> STOP])
    /\ cb' = [cb EXCEPT ![o] = IdleCb]
    /\ UNCHANGED <<regVars, evq, SEEN_HASHES, dropped, STOP, workVars,
                   envVars>>


(***************************************************************************)
(* worker_loop, one action per step.  process_func and the default output  *)
(* directory are the host's: process_func returns or raises, the getter    *)
(* returns the configured directory or raises.                             *)
(***************************************************************************)
DefaultOutDir == "O1"

\* The directories the settings can name as the default.
DefaultDirs == {DefaultOutDir, "O3"}

\* settings.update({"out_dir": d}): from now on get_out_dir() returns d.
UpdateOutDir(d) ==
    /\ default_out_dir' = d
    /\ UNCHANGED <<regVars, watchVars, queueVars, STOP, wk, move_original,
                   webVars,
                   processed, envVars>>

\* The locals of worker_loop; out_root is the one of the try block (the
\* except clause assigns its own at line 167).
IdleWorker == [pc |-> "loop", job |-> None, result |-> None, err |-> None,
               out_root |-> None, raising |-> FALSE]

\* A loop that does not look at _STOP (the mutant of Loop).
LoopWhileTrue ==
    /\ wk.pc = "loop"
    /\ wk' = [wk EXCEPT !.pc = "get"]
    /\ UNCHANGED <<regVars, watchVars, queueVars, STOP, hostVars, processed,
                   envVars>>

\* while not _STOP.is_set()
Loop ==
    /\ wk.pc = "loop"
    /\ wk' = [wk EXCEPT !.pc = IF STOP THEN "exit" ELSE "get"]
    /\ UNCHANGED <<regVars, watchVars, queueVars, STOP, hostVars, processed,
                   envVars>>

\* _WORK_Q.get(timeout=0.5); queue.Empty sends the loop round again.
Get ==
    /\ wk.pc = "get"
    /\ IF WORK_Q = <<>>
       THEN /\ wk' = [wk EXCEPT !.pc = "loop"]
            /\ UNCHANGED <<WORK_Q, processed>>
       ELSE /\ wk' = [wk EXCEPT !.pc = "process", !.job = Head(WORK_Q)]
            /\ WORK_Q' = Tail(WORK_Q)
            /\ processed' = Append(processed, Head(WORK_Q))
    /\ UNCHANGED <<regVars, watchVars, unfinished_tasks, STOP, hostVars,
                   envVars>>

\* result = process_func(src, job.recipe_ref): a missing source raises, and
\* so may anything else in the callback.
Process ==
    /\ wk.pc = "process"
    /\ \E ok \in BOOLEAN :
        IF ok /\ IsFile(fs, wk.job.path)
        THEN wk' = [wk EXCEPT !.pc = "resolve",
                              !.result = <<"ocr", fs[wk.job.path].c>>]
        ELSE wk' = [wk EXCEPT !.pc = "except", !.err = "ProcessError"]
    /\ UNCHANGED <<regVars, watchVars, queueVars, STOP, hostVars, processed,
                   envVars>>

\* job.out_dir or (out_dir() if callable(out_dir) else out_dir)
\* The default first, whatever the Job says (the mutant of OutRoot).
OutRootDefault(job) == default_out_dir

OutRoot(job) == IF job.out_dir # None THEN job.out_dir ELSE default_out_dir

\* A success path that relocates before it writes (the mutant of Resolve).
ResolveThenMove ==
    /\ wk.pc = "resolve"
    /\ wk' = [wk EXCEPT !.pc = "move", !.out_root = OutRoot(wk.job)]
    /\ UNCHANGED <<regVars, watchVars, queueVars, STOP, hostVars, processed,
                   envVars>>

\* Lines 144-147: resolve the output directory and create it.
Resolve ==
    /\ wk.pc = "resolve"
    /\ \E ok \in BOOLEAN :
        IF ok THEN wk' = [wk EXCEPT !.pc = "write",
                                    !.out_root = OutRoot(wk.job)]
        ELSE wk' = [wk EXCEPT !.pc = "except", !.err = "OSError"]
    /\ UNCHANGED <<regVars, watchVars, queueVars, STOP, hostVars, processed,
                   envVars>>

\* out_root_path / (src.stem + ".json")
JsonIn(out_root, src) == PathOf(out_root, src.stem, ".json")

\* Path(out_root) / "Errors" / (src.name + ".err.txt")
ErrIn(out_root, src) ==
    PathOf(out_root \o "/Errors", PathName(src) \o ".err", ".txt")

JsonPath(job) == JsonIn(OutRoot(job), job.path)

ErrPath(job) == ErrIn(OutRoot(job), job.path)

Artifact(payload) == [c |-> payload, sz |-> FullSize]

\* (out_root_path / (src.stem + ".json")).write_text(payload)
WriteJson ==
    /\ wk.pc = "write"
    /\ \E ok \in BOOLEAN :
        IF ok
        THEN /\ fs' = FsPut(fs, JsonIn(wk.out_root, wk.job.path),
                             Artifact(wk.result))
             /\ wk' = [wk EXCEPT !.pc = IF move_original THEN "move"
                                        ELSE "task_done"]
        ELSE /\ wk' = [wk EXCEPT !.pc = "except", !.err = "OSError",
                                 !.out_root = None]
             /\ UNCHANGED fs
    /\ UNCHANGED <<regVars, watchVars, queueVars, STOP, hostVars,
                   processed, writing, arrivals>>

ProcessedDir(src) == src.parent \o "/Processed"

\* processed_dir / src.name, then processed_dir / f"{src.stem} ({i}){src.suffix}"
Dest(src, i) ==
    IF i = 0 THEN PathOf(ProcessedDir(src), src.stem, src.suffix)
    ELSE PathOf(ProcessedDir(src),
                src.stem \o " (" \o ToString(i) \o ")", src.suffix)

\* The first candidate taken without looking (the mutant of FreeDest).
FirstDest(fsys, src, i) == Dest(src, i)

RECURSIVE FreeDest(_, _, _)
\* while dest.exists(): ...; i += 1
FreeDest(fsys, src, i) ==
    IF ~IsFile(fsys, Dest(src, i)) THEN Dest(src, i)
    ELSE FreeDest(fsys, src, i + 1)

\* A relocation that copies and leaves the source (the mutant of Relocate).
RelocateCopy(fsys, src) == FsPut(fsys, FreeDest(fsys, src, 0), fsys[src])

\* A relocation onto Processed/<name>, whatever is there (the mutant of
\* Relocate).
RelocateOverwrites(fsys, src) ==
    FsRemove(FsPut(fsys, Dest(src, 0), fsys[src]), src)

\* src.replace(dest)
Relocate(fsys, src) ==
    FsRemove(FsPut(fsys, FreeDest(fsys, src, 0), fsys[src]), src)

\* Lines 156-164: the Processed directory, the free name, the move.  The
\* file appears in Processed, which an observer of that directory is told as
\* a creation; the observer of the folder itself is scheduled with
\* recursive=False (line 98) and is told of the source leaving only, an
\* event that has no handler.
Move ==
    /\ wk.pc = "move"
    /\ \E ok \in BOOLEAN :
        IF ok /\ IsFile(fs, wk.job.path)
        THEN /\ fs' = Relocate(fs, wk.job.path)
             /\ writing' = writing \ {wk.job.path}
             /\ wk' = [wk EXCEPT !.pc = "task_done"]
             /\ Deliver(ProcessedDir(wk.job.path),
                        NewEvent("created", FreeDest(fs, wk.job.path, 0)))
        ELSE /\ wk' = [wk EXCEPT !.pc = "except", !.err = "OSError",
                                 !.out_root = None]
             /\ UNCHANGED <<fs, writing, evq>>
    /\ UNCHANGED <<regVars, cb, SEEN_HASHES, enqueued, dropped, queueVars,
                   STOP, hostVars, processed, arrivals>>

\* The error artifact written where the result goes (the mutant of WriteErr).
WriteErrAsJson(fsys, job, e) == FsPut(fsys, JsonPath(job), Artifact(e))

\* An except clause that also puts the source away (a mutant of WriteErr).
WriteErrAndRelocate(fsys, job, e) ==
    IF IsFile(fsys, job.path)
    THEN Relocate(FsPut(fsys, ErrPath(job), Artifact(e)), job.path)
    ELSE FsPut(fsys, ErrPath(job), Artifact(e))

\* (err_dir / (src.name + ".err.txt")).write_text(str(e))
WriteErr(fsys, job, e) == FsPut(fsys, ErrPath(job), Artifact(e))

\* Lines 166-171: the except clause.  What it raises itself is not caught:
\* it leaves worker_loop once the finally clause has run.
Except ==
    /\ wk.pc = "except"
    /\ \E ok \in BOOLEAN :
        IF ok
        THEN /\ fs' = WriteErr(fs, wk.job, wk.err)
             /\ wk' = [wk EXCEPT !.pc = "task_done"]
        ELSE /\ wk' = [wk EXCEPT !.pc = "task_done", !.raising = TRUE]
             /\ UNCHANGED fs
    /\ UNCHANGED <<regVars, watchVars, queueVars, STOP, hostVars,
                   processed, writing, arrivals>>

\* task_done() at the end of the try block only (the mutant of TaskDone).
TaskDoneOnSuccessOnly ==
    /\ wk.pc = "task_done"
    /\ unfinished_tasks' = IF wk.err = None THEN unfinished_tasks - 1
                           ELSE unfinished_tasks
    /\ wk' = IF wk.raising THEN [wk EXCEPT !.pc = "crashed"] ELSE IdleWorker
    /\ UNCHANGED <<regVars, watchVars, WORK_Q, STOP, hostVars, processed,
                   envVars>>

\* A worker that forgets the fingerprint of the Job it is done with (the
\* mutant of TaskDone).
TaskDoneForgets ==
    /\ wk.pc = "task_done"
    /\ unfinished_tasks' = unfinished_tasks - 1
    /\ SEEN_HASHES' = SEEN_HASHES \ {wk.job.sha1}
    /\ wk' = IF wk.raising THEN [wk EXCEPT !.pc = "crashed"] ELSE IdleWorker
    /\ UNCHANGED <<regVars, cb, evq, enqueued, dropped, WORK_Q, STOP,
                   hostVars, processed, envVars>>

\* A loop that tests the flag before its first dequeue only: after a Job it
\* goes to the next dequeue at once (the mutant of TaskDone).
TaskDoneThenGet ==
    /\ wk.pc = "task_done"
    /\ unfinished_tasks' = unfinished_tasks - 1
    /\ wk' = IF wk.raising THEN [wk EXCEPT !.pc = "crashed"]
             ELSE [IdleWorker EXCEPT !.pc = "get"]
    /\ UNCHANGED <<regVars, watchVars, WORK_Q, STOP, hostVars, processed,
                   envVars>>

\* finally: _WORK_Q.task_done()
TaskDone ==
    /\ wk.pc = "task_done"
    /\ unfinished_tasks' = unfinished_tasks - 1
    /\ wk' = IF wk.raising THEN [wk EXCEPT !.pc = "crashed"] ELSE IdleWorker
    /\ UNCHANGED <<regVars, watchVars, WORK_Q, STOP, hostVars, processed,
                   envVars>>


Init ==
    /\ OBSERVERS = <<>>
    /\ observer = <<>>
    /\ api = [t \in Threads |-> IdleCall]
    /\ cb = <<>>
    /\ evq = <<>>
    /\ SEEN_HASHES = {}
    /\ WORK_Q = <<>>
    /\ unfinished_tasks = 0
    /\ STOP = FALSE
    /\ wk = IdleWorker
    /\ move_original \in BOOLEAN
    /\ default_out_dir = DefaultOutDir
    /\ JOBS = <<>>
    /\ task = <<>>
    /\ fs = <<>>
    /\ writing = {}
    /\ arrivals = 0
    /\ enqueued = <<>>
    /\ dropped = {}
    /\ processed = <<>>

(***************************************************************************)
(* SpecReg: the registry under concurrent start / stop / request_shutdown. *)
(***************************************************************************)
RegKeys == {Key(f, "R") : f \in Folders}

NextReg ==
    \/ \E t \in Threads, f \in Folders, rid \in {None, "R"}, out \in OutDirs :
            StartCall(t, f, rid, None, out)
    \/ \E t \in Threads : StartCheck(t)
    \/ \E t \in Threads : StartWatch(t)
    \/ \E t \in Threads : Register(t)
    \/ \E t \in Threads, k \in RegKeys : StopCall(t, k)
    \/ \E t \in Threads : StopCheck(t)
    \/ \E t \in Threads : StopPop(t)
    \/ \E t \in Threads : ObsStop(t)
    \/ \E t \in Threads : ObsJoin(t)
    \/ \E t \in Threads : RequestShutdown(t)
    \/ \E t \in Threads : StopAllList(t)
    \/ \E t \in Threads : StopAllNext(t)
    \/ \E o \in DOMAIN observer : Terminate(o)

SpecReg == Init /\ [][NextReg]_vars

(***************************************************************************)
(* SpecStart: start and stop requests that all name a recipe, so that a    *)
(* 400 can only come from start_watch raising.                             *)
(***************************************************************************)
NextStart ==
    \/ \E t \in Threads, f \in Folders, out \in OutDirs :
            StartCall(t, f, "R", None, out)
    \/ \E t \in Threads : StartCheck(t)
    \/ \E t \in Threads : StartWatch(t)
    \/ \E t \in Threads : Register(t)
    \/ \E t \in Threads, k \in RegKeys : StopCall(t, k)
    \/ \E t \in Threads : StopCheck(t)
    \/ \E t \in Threads : StopPop(t)
    \/ \E t \in Threads : ObsStop(t)
    \/ \E t \in Threads : ObsJoin(t)
    \/ \E o \in DOMAIN observer : Terminate(o)

SpecStart == Init /\ [][NextStart]_vars

(***************************************************************************)
(* SpecStatus: GET /watch/status requests among the start, stop and        *)
(* shutdown requests of SpecReg.                                           *)
(***************************************************************************)
NextStatus ==
    \/ NextReg
    \/ \E t \in Threads : StatusCall(t)
    \/ \E t \in Threads : StatusCheck(t)

SpecStatus == Init /\ [][NextStatus]_vars

(***************************************************************************)
(* SpecKey: start requests whose folder or recipe reference contains the   *)
(* separator of the key.                                                   *)
(***************************************************************************)
KeyFolders == {"A", "A|B"}
KeyRecipes == {"R", "B|R"}
KeyKeys == {Key(f, r) : f \in KeyFolders, r \in KeyRecipes}

NextKey ==
    \/ \E t \in Threads, f \in KeyFolders, rid \in KeyRecipes :
            StartCall(t, f, rid, None, None)
    \/ \E t \in Threads : StartCheck(t)
    \/ \E t \in Threads : StartWatch(t)
    \/ \E t \in Threads : Register(t)
    \/ \E t \in Threads, k \in KeyKeys : StopCall(t, k)
    \/ \E t \in Threads : StopCheck(t)
    \/ \E t \in Threads : StopPop(t)
    \/ \E t \in Threads : ObsStop(t)
    \/ \E t \in Threads : ObsJoin(t)
    \/ \E o \in DOMAIN observer : Terminate(o)

SpecKey == Init /\ [][NextKey]_vars

(***************************************************************************)
(* The threads of the pipeline, grouped.  Host is the one thread that      *)
(* drives the registry when the calls are made in sequence.                *)
(***************************************************************************)
Host == "t1"

\* The files that arrive in the watched folders: path and content.  The same
\* content comes under another name and in another folder.
InboxFiles ==
    {<<PathOf("A", "a", ".pdf"), "X">>, <<PathOf("A", "b", ".pdf"), "X">>,
     <<PathOf("B", "a", ".pdf"), "X">>}

InboxPaths == {f[1] : f \in InboxFiles}

\* The watches of the sequential runs: folder, recipe_id, out_dir.
Watches == {<<"A", "R", None>>, <<"B", "R", "O2">>}

HostStart ==
    \/ \E w \in Watches : StartCall(Host, w[1], w[2], None, w[3])
    \/ StartCheck(Host)
    \/ StartWatch(Host)
    \/ Register(Host)

HostShutdown ==
    \/ RequestShutdown(Host)
    \/ StopAllList(Host)
    \/ StopAllNext(Host)
    \/ StopPop(Host)
    \/ ObsStop(Host)
    \/ ObsJoin(Host)
    \/ \E o \in DOMAIN observer : Terminate(o)

CallbackStep ==
    \/ \E o \in DOMAIN observer : Dispatch(o)
    \/ \E o \in DOMAIN observer : Filter(o)
    \/ \E o \in DOMAIN observer : Poll(o)
    \/ \E o \in DOMAIN observer : Hash(o)
    \/ \E o \in DOMAIN observer : Check(o)
    \/ \E o \in DOMAIN observer : Add(o)
    \/ \E o \in DOMAIN observer : Put(o)

WorkerStep ==
    \/ Loop
    \/ Get
    \/ Process
    \/ Resolve
    \/ WriteJson
    \/ Move
    \/ Except
    \/ TaskDone

\* The steps of the callback thread of observer o.
Callback(o) ==
    /\ o \in DOMAIN observer
    /\ \/ Dispatch(o)
       \/ Filter(o)
       \/ Poll(o)
       \/ Hash(o)
       \/ Check(o)
       \/ Add(o)
       \/ Put(o)

(***************************************************************************)
(* Spec: detection and dedup.  Two watches are started one after the       *)
(* other; completely written files with the same content arrive and are    *)
(* notified again while the two callback threads fingerprint them and the  *)
(* worker (move_original at its default, True) processes the Jobs.         *)
(***************************************************************************)
InitDefault == Init /\ move_original = TRUE

Next ==
    \/ HostStart
    \/ \E f \in InboxFiles :
            Arrive(f[1].parent, f[1].stem, f[1].suffix, f[2], FullSize,
                   "created")
    \/ \E p \in InboxPaths : Renotify(p, "moved")
    \/ CallbackStep
    \/ WorkerStep

Spec == InitDefault /\ [][Next]_vars

(***************************************************************************)
(* SpecWork: one watch, with or without an output override; files arrive   *)
(* and are deleted by their owner; the worker runs with move_original at   *)
(* its default.                                                            *)
(***************************************************************************)
WorkFiles ==
    {<<PathOf("A", "a", ".pdf"), "X">>, <<PathOf("A", "a", ".png"), "Y">>}

WorkPaths == {f[1] : f \in WorkFiles}

WorkStart ==
    \/ \E out \in OutDirs : StartCall(Host, "A", "R", None, out)
    \/ StartCheck(Host)
    \/ StartWatch(Host)
    \/ Register(Host)

WorkEnv ==
    \/ \E f \in WorkFiles :
            Arrive(f[1].parent, f[1].stem, f[1].suffix, f[2], FullSize,
                   "created")
    \/ \E p \in WorkPaths : Delete(p)

NextWork ==
    \/ WorkStart
    \/ WorkEnv
    \/ CallbackStep
    \/ WorkerStep

SpecWork == InitDefault /\ [][NextWork]_vars

(***************************************************************************)
(* SpecShutdown: SpecWork with request_shutdown and either value of        *)
(* move_original.                                                          *)
(***************************************************************************)
NextShutdown ==
    \/ WorkStart
    \/ HostShutdown
    \/ WorkEnv
    \/ CallbackStep
    \/ WorkerStep

SpecShutdown == Init /\ [][NextShutdown]_vars

(***************************************************************************)
(* SpecOut: one watch, with or without an output override, and a worker    *)
(* with either value of move_original that asks a getter for the default   *)
(* output directory, while the settings are changed.                       *)
(***************************************************************************)
OutFiles ==
    {<<PathOf("A", "a", ".pdf"), "X">>, <<PathOf("A", "b", ".pdf"), "Y">>}

NextOut ==
    \/ WorkStart
    \/ \E f \in OutFiles :
            Arrive(f[1].parent, f[1].stem, f[1].suffix, f[2], FullSize,
                   "created")
    \/ \E d \in DefaultDirs : UpdateOutDir(d)
    \/ CallbackStep
    \/ WorkerStep

SpecOut == Init /\ [][NextOut]_vars

(***************************************************************************)
(* SpecIso: two watches; the file that arrives in A is rewritten by its    *)
(* producer for ever and notified again, and a complete file arrives in B. *)
(* Each observer's thread is scheduled again and again: a step of a        *)
(* callback that stays possible is taken in the end.                       *)
(***************************************************************************)
IsoFiles ==
    {<<PathOf("A", "a", ".pdf"), "X", 1>>,
     <<PathOf("B", "b", ".pdf"), "Y", FullSize>>}

NextIso ==
    \/ HostStart
    \/ \E f \in IsoFiles :
            Arrive(f[1].parent, f[1].stem, f[1].suffix, f[2], f[3], "created")
    \/ Rewrite(PathOf("A", "a", ".pdf"))
    \/ Renotify(PathOf("A", "a", ".pdf"), "created")
    \/ CallbackStep

SpecIso ==
    InitDefault /\ [][NextIso]_vars /\ \A o \in 1 .. MaxObs : WF_vars(Callback(o))

(***************************************************************************)
(* SpecExit: one watch, files arriving, request_shutdown, and a worker     *)
(* thread that is scheduled again and again: every step of worker_loop     *)
(* that can be taken is taken in the end (the dequeue has a timeout, and   *)
(* process_func is taken to return or raise).                              *)
(***************************************************************************)
ExitStart ==
    \/ StartCall(Host, "A", "R", None, None)
    \/ StartCheck(Host)
    \/ StartWatch(Host)
    \/ Register(Host)

NextExit ==
    \/ ExitStart
    \/ HostShutdown
    \/ \E f \in OutFiles :
            Arrive(f[1].parent, f[1].stem, f[1].suffix, f[2], FullSize,
                   "created")
    \/ CallbackStep
    \/ WorkerStep

SpecExit == InitDefault /\ [][NextExit]_vars /\ WF_vars(WorkerStep)

(***************************************************************************)
(* SpecDedup: SpecExit's requests, files, callbacks and worker, with stop  *)
(* requests for the watch as well.                                         *)
(***************************************************************************)
NextDedup ==
    \/ NextExit
    \/ StopCall(Host, Key("A", "R"))
    \/ StopCheck(Host)

SpecDedup == InitDefault /\ [][NextDedup]_vars

(***************************************************************************)
(* SpecRetry: two watches; a file arrives in each folder with the same     *)
(* content, and a file that is still in its folder is notified again, as   *)
(* created or as moved.                                                    *)
(***************************************************************************)
RetryFiles ==
    {<<PathOf("A", "a", ".pdf"), "X">>, <<PathOf("B", "a", ".pdf"), "X">>}

NextRetry ==
    \/ HostStart
    \/ \E f \in RetryFiles :
            Arrive(f[1].parent, f[1].stem, f[1].suffix, f[2], FullSize,
                   "created")
    \/ \E f \in RetryFiles, typ \in {"created", "moved"} : Renotify(f[1], typ)
    \/ CallbackStep
    \/ WorkerStep

SpecRetry == InitDefault /\ [][NextRetry]_vars

(***************************************************************************)
(* SpecScan: a file is in the folder A before the watch on A is started    *)
(* and is modified in place afterwards; another file arrives in A and may  *)
(* be modified as well.                                                    *)
(***************************************************************************)
OldPath == PathOf("A", "a", ".pdf")

NewPath == PathOf("A", "b", ".pdf")

ScanContents == {"X", "Y"}

InitScan ==
    /\ OBSERVERS = <<>>
    /\ observer = <<>>
    /\ api = [t \in Threads |-> IdleCall]
    /\ cb = <<>>
    /\ evq = <<>>
    /\ SEEN_HASHES = {}
    /\ WORK_Q = <<>>
    /\ unfinished_tasks = 0
    /\ STOP = FALSE
    /\ wk = IdleWorker
    /\ move_original = TRUE
    /\ default_out_dir = DefaultOutDir
    /\ JOBS = <<>>
    /\ task = <<>>
    /\ \E c \in ScanContents :
            fs = [q \in {OldPath} |-> [c |-> c, sz |-> FullSize]]
    /\ writing = {}
    /\ arrivals = 0
    /\ enqueued = <<>>
    /\ dropped = {}
    /\ processed = <<>>

NextScan ==
    \/ ExitStart
    \/ \E c \in ScanContents :
            Arrive(NewPath.parent, NewPath.stem, NewPath.suffix, c, FullSize,
                   "created")
    \/ \E q \in {OldPath, NewPath}, c \in ScanContents : Modify(q, c)
    \/ CallbackStep
    \/ WorkerStep

SpecScan == InitScan /\ [][NextScan]_vars

(***************************************************************************)
(* SpecLoop: the folder A and its Processed directory are both watched; a  *)
(* file arrives in A, complete or with its producer still writing.         *)
(***************************************************************************)
LoopFolders == {"A", ProcessedDir(PathOf("A", "a", ".pdf"))}

LoopFiles ==
    {<<PathOf("A", "a", ".pdf"), "X", sz>> : sz \in {1, FullSize}}

NextLoop ==
    \/ \E f \in LoopFolders : StartCall(Host, f, "R", None, None)
    \/ StartCheck(Host)
    \/ StartWatch(Host)
    \/ Register(Host)
    \/ \E f \in LoopFiles :
            Arrive(f[1].parent, f[1].stem, f[1].suffix, f[2], f[3], "created")
    \/ \E f \in LoopFiles : Write(f[1])
    \/ CallbackStep
    \/ WorkerStep

SpecLoop == InitDefault /\ [][NextLoop]_vars

(***************************************************************************)
(* The webhook path (webhook_api.py): POST /webhook/ocr records a job in   *)
(* JOBS and schedules run_job, one action per step of run_job.  job_id is  *)
(* a fresh uuid4, here the position in JOBS.  The steps of different jobs  *)
(* interleave freely, which covers the interleavings of the event loop.    *)
(***************************************************************************)
MaxJobs == 2

watchSide == <<regVars, watchVars, queueVars, STOP, wk, move_original,
               default_out_dir, processed, envVars>>

\* What httpx raises when the callback cannot be delivered.
CallbackErrors == {"ConnectError", "TimeoutException"}

\* A handler that lets the error of the callback through (the mutant of
\* Catches).
CatchesNothing(e) == FALSE

\* _maybe_callback: except Exception as e
Catches(e) == e \in CallbackErrors

\* POST /webhook/ocr with a file or a fileUrl that could be fetched (every
\* other request is answered 401, 400 or 500 before a job exists); the
\* callback is taken from the JSON payload only.
WebhookOcr(kind, callbackUrl) ==
    /\ Len(JOBS) < MaxJobs
    /\ JOBS' = Append(JOBS, [status |-> "Queued", result |-> None,
                             error |-> None])
    /\ task' = Append(task, [pc |-> "queued",
                             callback |-> IF kind = "fileUrl"
                                          THEN callbackUrl ELSE None,
                             e |-> None,
                             posted |-> None]) \* history: the callback's fate
    /\ UNCHANGED watchSide

\* run_job: JOBS[job_id]["status"] = "Running"
RunJob(j) ==
    /\ task[j].pc = "queued"
    /\ JOBS' = [JOBS EXCEPT ![j].status = "Running"]
    /\ task' = [task EXCEPT ![j].pc = "process"]
    /\ UNCHANGED watchSide

\* _make_ocr and ocr.process_pdf return or raise; on return the status is
\* set.
ProcessPdf(j) ==
    /\ task[j].pc = "process"
    /\ \E ok \in BOOLEAN :
        IF ok
        THEN /\ JOBS' = [JOBS EXCEPT ![j].status = "Completed"]
             /\ task' = [task EXCEPT ![j].pc = "result"]
        ELSE /\ task' = [task EXCEPT ![j].pc = "except", ![j].e = "OcrError"]
             /\ UNCHANGED JOBS
    /\ UNCHANGED watchSide

\* JOBS[job_id]["result"] = {"text": text, "words": words}
SetResult(j) ==
    /\ task[j].pc = "result"
    /\ JOBS' = [JOBS EXCEPT ![j].result = <<"text", "words">>]
    /\ task' = [task EXCEPT ![j].pc = "callback"]
    /\ UNCHANGED watchSide

\* await _maybe_callback(callback, body), in the try block and in the except
\* clause: nothing without a callback URL; otherwise the POST is made, and
\* what it raises is caught and logged.  An error that is not caught leaves
\* the try block for the except clause, and the except clause for the
\* caller.
MaybeCallback(j) ==
    /\ task[j].pc = "callback"
    /\ IF task[j].callback = None
       THEN task' = [task EXCEPT ![j].pc = "finally"]
       ELSE \E e \in CallbackErrors \cup {None} :
                task' = [task EXCEPT
                    ![j].posted = IF e = None THEN "sent" ELSE "failed",
                    ![j].pc = IF e = None \/ Catches(e) \/ task[j].e # None
                              THEN "finally" ELSE "except",
                    ![j].e = IF e = None \/ Catches(e) THEN @ ELSE e]
    /\ UNCHANGED <<JOBS, watchSide>>

\* except Exception as e: JOBS[job_id]["status"] = "Failed"
ExceptStatus(j) ==
    /\ task[j].pc = "except"
    /\ JOBS' = [JOBS EXCEPT ![j].status = "Failed"]
    /\ task' = [task EXCEPT ![j].pc = "error"]
    /\ UNCHANGED watchSide

\* JOBS[job_id]["error"] = {"message": str(e), "code": "OCR_ERROR"}
SetError(j) ==
    /\ task[j].pc = "error"
    /\ JOBS' = [JOBS EXCEPT ![j].error = <<task[j].e, "OCR_ERROR">>]
    /\ task' = [task EXCEPT ![j].pc = "callback"]
    /\ UNCHANGED watchSide

\* finally: os.remove(tmp_path), whose errors are ignored
Finally(j) ==
    /\ task[j].pc = "finally"
    /\ task' = [task EXCEPT ![j].pc = "done"]
    /\ UNCHANGED <<JOBS, watchSide>>

NextWeb ==
    \/ \E kind \in {"file", "fileUrl"}, u \in {None, "http://cb"} :
            WebhookOcr(kind, u)
    \/ \E j \in DOMAIN task : RunJob(j)
    \/ \E j \in DOMAIN task : ProcessPdf(j)
    \/ \E j \in DOMAIN task : SetResult(j)
    \/ \E j \in DOMAIN task : MaybeCallback(j)
    \/ \E j \in DOMAIN task : ExceptStatus(j)
    \/ \E j \in DOMAIN task : SetError(j)
    \/ \E j \in DOMAIN task : Finally(j)

SpecWeb == InitDefault /\ [][NextWeb]_vars

(***************************************************************************)
(* SpecRestart: one request thread starts the watch on A, stops it and     *)
(* starts it again, while files arrive and the callbacks run.              *)
(***************************************************************************)
RestartFiles ==
    {<<PathOf("A", "a", ".pdf"), "X">>, <<PathOf("A", "b", ".pdf"), "Y">>}

NextRestart ==
    \/ ExitStart
    \/ StopCall(Host, Key("A", "R"))
    \/ StopCheck(Host)
    \/ StopPop(Host)
    \/ ObsStop(Host)
    \/ ObsJoin(Host)
    \/ \E o \in DOMAIN observer : Terminate(o)
    \/ \E f \in RestartFiles :
            Arrive(f[1].parent, f[1].stem, f[1].suffix, f[2], FullSize,
                   "created")
    \/ CallbackStep

SpecRestart == InitDefault /\ [][NextRestart]_vars

(***************************************************************************)
(* SpecStop: one watch, a file that its producer goes on rewriting, and    *)
(* stop requests for the watch on both request threads.                    *)
(***************************************************************************)
NextStop ==
    \/ ExitStart
    \/ \E t \in Threads : StopCall(t, Key("A", "R"))
    \/ \E t \in Threads : StopCheck(t)
    \/ \E t \in Threads : StopPop(t)
    \/ \E t \in Threads : ObsStop(t)
    \/ \E t \in Threads : ObsJoin(t)
    \/ \E o \in DOMAIN observer : Terminate(o)
    \/ Arrive("A", "a", ".pdf", "X", 1, "created")
    \/ Rewrite(PathOf("A", "a", ".pdf"))
    \/ CallbackStep

SpecStop == InitDefault /\ [][NextStop]_vars

(***************************************************************************)
(* SpecMove: relocation.  The Processed directory of the inbox holds files *)
(* of earlier runs under some of the names report, report (1), ...; files  *)
(* of that same name and different contents arrive one after the other     *)
(* and are processed and moved.                                            *)
(***************************************************************************)
Report == PathOf("A", "a", ".pdf")

OldFile == [c |-> "old", sz |-> FullSize]

InitMove ==
    /\ OBSERVERS = <<>>
    /\ observer = <<>>
    /\ api = [t \in Threads |-> IdleCall]
    /\ cb = <<>>
    /\ evq = <<>>
    /\ SEEN_HASHES = {}
    /\ WORK_Q = <<>>
    /\ unfinished_tasks = 0
    /\ STOP = FALSE
    /\ wk = IdleWorker
    /\ move_original = TRUE
    /\ default_out_dir = DefaultOutDir
    /\ JOBS = <<>>
    /\ task = <<>>
    /\ \E S \in SUBSET (0 .. MaxOld) :
            fs = [q \in {Dest(Report, i) : i \in S} |-> OldFile]
    /\ writing = {}
    /\ arrivals = 0
    /\ enqueued = <<>>
    /\ dropped = {}
    /\ processed = <<>>

NextMove ==
    \/ StartCall(Host, "A", "R", None, None)
    \/ StartCheck(Host)
    \/ StartWatch(Host)
    \/ Register(Host)
    \/ \E c \in {"X", "Y", "Z"} :
            Arrive(Report.parent, Report.stem, Report.suffix, c, FullSize,
                   "created")
    \/ CallbackStep
    \/ WorkerStep

SpecMove == InitMove /\ [][NextMove]_vars

(***************************************************************************)
(* SpecFilter: what the callback lets through.  One watch; files of        *)
(* allowed and other extensions, in either case, temporary files and a     *)
(* directory appear in the inbox, each file with a content of its own.     *)
(***************************************************************************)
FilterFiles ==
    {<<PathOf("A", "a", ".pdf"), "P">>, <<PathOf("A", "b", ".PDF"), "Q">>,
     <<PathOf("A", "a", ".txt"), "T">>, <<PathOf("A", "a", ".tmp"), "M">>,
     <<PathOf("A", "a", ".TMP"), "N">>, <<PathOf("A", "a", ".part"), "R">>,
     <<PathOf("A", "~$a", ".pdf"), "W">>}

FilterDir == PathOf("A", "d", ".pdf")

NextFilter ==
    \/ StartCall(Host, "A", "R", None, None)
    \/ StartCheck(Host)
    \/ StartWatch(Host)
    \/ Register(Host)
    \/ \E f \in FilterFiles, typ \in {"created", "moved"} :
            Arrive(f[1].parent, f[1].stem, f[1].suffix, f[2], FullSize, typ)
    \/ ArriveDir(FilterDir.parent, FilterDir.stem, FilterDir.suffix)
    \/ CallbackStep

SpecFilter == Init /\ [][NextFilter]_vars

(***************************************************************************)
(* SpecOrder: one watch and one worker.  Two files arrive, a.pdf while its  *)
(* producer is still writing it and b.pdf complete, and are probed,        *)
(* fingerprinted, enqueued and processed.                                  *)
(***************************************************************************)
\* path, content, size on arrival
OrderFiles ==
    {<<PathOf("A", "a", ".pdf"), "X", 1>>,
     <<PathOf("A", "b", ".pdf"), "Y", FullSize>>}

NextOrder ==
    \/ StartCall(Host, "A", "R", None, None)
    \/ StartCheck(Host)
    \/ StartWatch(Host)
    \/ Register(Host)
    \/ \E f \in OrderFiles :
            Arrive(f[1].parent, f[1].stem, f[1].suffix, f[2], f[3], "created")
    \/ \E f \in OrderFiles : Write(f[1])
    \/ CallbackStep
    \/ WorkerStep

SpecOrder == InitDefault /\ [][NextOrder]_vars

(***************************************************************************)
(* Properties.                                                             *)
(***************************************************************************)
JobsOf(digest) == {i \in DOMAIN enqueued : enqueued[i].job.sha1 = digest}

\* C1: under any interleaving of the callback threads, at most one Job is
\* ever enqueued for a given content fingerprint.
C1_OneJobPerFingerprint ==
    \A i, j \in DOMAIN enqueued :
        enqueued[i].job.sha1 = enqueued[j].job.sha1 => i = j

\* C2, as far as a finite run can refute it: a completely written file with
\* an allowed extension whose event waits in the queue of a registered watch
\* is eventually enqueued or found in the dedup set, so the callback thread
\* that has to handle the event is still running.
C2_ArrivedFileIsHandled ==
    \A k \in DOMAIN OBSERVERS :
        \A i \in DOMAIN evq[OBSERVERS[k]] :
            LET p == EventPath(evq[OBSERVERS[k]][i]) IN
            (Accepts(fs, p) /\ p \notin writing)
                => cb[OBSERVERS[k]].pc # "dead"

\* C3: a callback that finds its file's fingerprint in the dedup set returns
\* at once, and no step of a callback up to and including that test changes
\* the dedup set or the queue or produces a Job.
C3_RedeliveryChangesNothing ==
    [][\A o \in DOMAIN cb :
        (/\ cb'[o] # cb[o]
         /\ \/ cb[o].pc \in {"idle", "is_file", "probe", "hash"}
            \/ cb[o].pc = "check" /\ cb[o].digest \in SEEN_HASHES)
        => /\ SEEN_HASHES' = SEEN_HASHES
           /\ WORK_Q' = WORK_Q
           /\ enqueued' = enqueued
           /\ unfinished_tasks' = unfinished_tasks
           /\ (cb[o].pc = "check" => cb'[o].pc = "idle")]_vars

\* A re-delivered event for a file whose Job was already taken off the queue
\* has been dropped.
C3_Witness ==
    \E d \in dropped : \E i \in DOMAIN processed :
        /\ d.ev.typ = "moved"
        /\ processed[i].path = EventPath(d.ev)
        /\ processed[i].sha1 = d.digest
        /\ Len(enqueued) = 1

\* C4: dedup is by content.  A Job carries its file's path, its watch's
\* recipe_ref and out_dir and the content's fingerprint; and once a Job has
\* been produced for a content, a file with the same content that arrives
\* afterwards, under whatever name or folder, produces none.
C4_DedupByContent ==
    /\ \A i \in DOMAIN enqueued :
        LET e == enqueued[i] IN
        /\ e.job.recipe_ref = observer[e.obs].recipe_ref
        /\ e.job.out_dir = observer[e.obs].out_dir
        /\ e.job.path.parent = observer[e.obs].folder
        /\ \E f \in InboxFiles :
            /\ f[1] = e.job.path
            /\ e.job.sha1 = <<"sha1", f[2], FullSize>>
    /\ \A i, j \in DOMAIN enqueued :
        (i < j /\ enqueued[i].job.sha1 = enqueued[j].job.sha1)
            => enqueued[j].stamp < i

\* a.pdf produced a Job; a byte-identical file that arrived later under
\* another path was dropped.
C4_Witness ==
    \E d \in dropped : \E i \in DOMAIN enqueued :
        /\ enqueued[i].job.sha1 = d.digest
        /\ enqueued[i].job.path # EventPath(d.ev)
        /\ d.ev.typ = "created"
        /\ d.ev.stamp >= i
        /\ Cardinality(JobsOf(d.digest)) = 1

InProcessed(src, q) == q.parent = ProcessedDir(src) /\ q.suffix = src.suffix

\* C5: when the worker has processed a Job successfully with relocation
\* enabled, <effective out_dir>/<stem>.json exists, the source is gone from
\* its original path and it is in the Processed directory beside it.
C5_SuccessLeavesJsonAndMovesSource ==
    [][(wk.pc = "move" /\ wk'.pc = "task_done")
        => /\ move_original
           /\ IsFile(fs', PathOf(IF wk.job.out_dir # None THEN wk.job.out_dir
                                 ELSE DefaultOutDir, wk.job.path.stem, ".json"))
           /\ ~IsFile(fs', wk.job.path)
           /\ \E q \in DOMAIN fs' \ DOMAIN fs :
                InProcessed(wk.job.path, q) /\ fs'[q] = fs[wk.job.path]]_vars

C5_Witness ==
    /\ wk.pc = "task_done"
    /\ wk.err = None
    /\ move_original
    /\ wk.job.out_dir = "O2"
    /\ IsFile(fs, PathOf("O2", "a", ".json"))
    /\ ~IsFile(fs, wk.job.path)
    /\ \E q \in DOMAIN fs : InProcessed(wk.job.path, q)

CallbackRaised == wk.err = "ProcessError"

WorkerEnded == wk.pc \in {"exit", "crashed"}

\* C7: a failing Job never terminates the worker loop: the loop ends only
\* when the shutdown signal is set.
C7_LoopEndsOnlyOnShutdown == WorkerEnded => STOP

\* C8: every Job put on the queue is dequeued and processed exactly once, in
\* the order of the queue, and none is left unprocessed when the worker ends.
C8_EveryJobProcessedOnce ==
    /\ Len(processed) <= Len(enqueued)
    /\ \A i \in DOMAIN processed : processed[i] = enqueued[i].job
    /\ WorkerEnded => Len(processed) = Len(enqueued)

\* C9: a start that finds its key registered returns "already_watching" with
\* that same key, constructs no observer and leaves the registry as it is;
\* and every start that reports a watch returns the key of its own arguments.
C9_SecondStartIsNoOp ==
    [][\A t \in Threads :
        /\ (api[t].pc = "start_check" /\ api[t].key \in DOMAIN OBSERVERS
            /\ api'[t] # api[t] /\ api'[t].ret.status # "500")
            => /\ api'[t].pc = "idle"
               /\ api'[t].ret = [status |-> "already_watching",
                                 key |-> api[t].folder \o "|"
                                         \o api[t].recipe_ref]
               /\ observer' = observer
               /\ OBSERVERS' = OBSERVERS
        /\ (api[t].pc = "register" /\ api'[t] # api[t])
            => /\ api'[t].ret = [status |-> "watching",
                                 key |-> api[t].folder \o "|"
                                         \o api[t].recipe_ref]
               /\ api'[t].ret.key \in DOMAIN OBSERVERS']_vars

Live(o) == observer[o].state \in {"running", "stopping", "crashed"}

\* The second of two starts in sequence has returned: one observer, one key.
C9_Witness ==
    \E t \in Threads :
        /\ api[t].ret = [status |-> "already_watching", key |-> "A|R"]
        /\ DOMAIN OBSERVERS = {"A|R"}
        /\ Cardinality({o \in DOMAIN observer : observer[o].key = "A|R"}) = 1
        /\ Live(OBSERVERS["A|R"])

\* A call that holds a reference to the observer and will register or stop it.
Held(o) ==
    \E t \in Threads :
        api[t].obs = o /\ api[t].pc \in {"register", "obs_stop", "obs_join"}

\* C10: for every key at most one started and not yet terminated observer
\* exists, and every such observer is registered under its key (or in the
\* hands of the call that is registering or stopping it).
C10_OneObserverPerKey ==
    /\ \A o1, o2 \in DOMAIN observer :
        (Live(o1) /\ Live(o2) /\ observer[o1].key = observer[o2].key)
            => o1 = o2
    /\ \A o \in DOMAIN observer :
        Live(o) => \/ Held(o)
                   \/ /\ observer[o].key \in DOMAIN OBSERVERS
                      /\ OBSERVERS[observer[o].key] = o

C12_StoppedMeansTerminated ==
    \A t \in Threads :
        (api[t].ret.status = "stopped" /\ Len(observer) = 1)
            => /\ observer[1].state = "terminated"
               /\ api[t].ret.key \notin DOMAIN OBSERVERS

\* C13: when stop_all_watches returns to request_shutdown, the registry is
\* empty and every observer constructed so far, by a start that preceded or
\* overlapped the call, has terminated.
C13_ShutdownLeavesNothingRunning ==
    [][\A t \in Threads :
        (api[t].pc = "stop_all_next" /\ api[t].op = "shutdown"
         /\ api'[t].ret.status = "shutdown")
            => /\ OBSERVERS' = <<>>
               /\ \A o \in DOMAIN observer' :
                    observer'[o].state = "terminated"]_vars

\* C14: relocation moves the source to the first free name of the sequence
\* name.ext, name (1).ext, name (2).ext, ... in Processed: every earlier name
\* of the sequence is taken, the chosen one was free, the file arrives there
\* with its data and no other file changes.
C14_FirstFreeName ==
    [][(wk.pc = "move" /\ wk'.pc = "task_done")
        => LET src == wk.job.path
               Name(k) == [parent |-> src.parent \o "/Processed",
                           stem |-> IF k = 0 THEN src.stem
                                    ELSE src.stem \o " (" \o ToString(k)
                                                  \o ")",
                           suffix |-> src.suffix]
           IN \E k \in 0 .. (MaxOld + MaxArrivals + 1) :
                /\ \A i \in 0 .. (k - 1) : Name(i) \in DOMAIN fs
                /\ Name(k) \notin DOMAIN fs
                /\ DOMAIN fs' = (DOMAIN fs \ {src}) \cup {Name(k)}
                /\ fs'[Name(k)] = fs[src]
                /\ \A q \in DOMAIN fs \ {src} : fs'[q] = fs[q]]_vars

\* Processed/a.pdf was there; the next a.pdf went to "a (1).pdf" and the
\* third to "a (2).pdf".
C14_Witness ==
    /\ Len(processed) = 2
    /\ DOMAIN fs = {PathOf("A/Processed", "a", ".pdf"),
                    PathOf("A/Processed", "a (1)", ".pdf"),
                    PathOf("A/Processed", "a (2)", ".pdf"),
                    PathOf("O1", "a", ".json")}
    /\ fs[PathOf("A/Processed", "a", ".pdf")].c = "old"
    /\ fs[PathOf("A/Processed", "a (1)", ".pdf")].c = processed[1].sha1[2]
    /\ fs[PathOf("A/Processed", "a (2)", ".pdf")].c = processed[2].sha1[2]
    /\ processed[1].sha1 # processed[2].sha1

\* C15: every Job ever enqueued is for a regular file whose extension is on
\* the allow-list, whatever its case, and whose name does not start with
\* "~$"; and the dedup set holds the fingerprints of such files only, so the
\* events for directories, other extensions, .tmp/.part files and ~$ names
\* leave neither a Job nor a fingerprint.
C15_OnlyAllowedFilesEnqueued ==
    /\ \A i \in DOMAIN enqueued :
        LET p == enqueued[i].job.path IN
        /\ p \in DOMAIN fs
        /\ p # PathOf("A", "d", ".pdf")
        /\ p.suffix \in {".pdf", ".PDF"}
        /\ p.stem # "~$a"
    /\ SEEN_HASHES \subseteq {<<"sha1", "P", FullSize>>,
                              <<"sha1", "Q", FullSize>>}

\* b.PDF has its Job; the event for ~$a.pdf was handled and left nothing.
C15_Witness ==
    /\ Len(enqueued) = 1
    /\ enqueued[1].job.path = PathOf("A", "b", ".PDF")
    /\ PathOf("A", "~$a", ".pdf") \in DOMAIN fs
    /\ arrivals = 2
    /\ SEEN_HASHES = {<<"sha1", "Q", FullSize>>}
    /\ \A o \in DOMAIN cb : cb[o].pc = "idle" /\ evq[o] = <<>>

\* C16: the worker takes the Jobs in the order in which they were put on
\* the queue, and the Jobs of one watcher are put in the order in which its
\* events were delivered; so of two files of one watch the one whose event
\* was delivered first is processed first.
C16_FifoOrder ==
    /\ Len(processed) <= Len(enqueued)
    /\ \A i \in DOMAIN processed : processed[i] = enqueued[i].job
    /\ Len(WORK_Q) = Len(enqueued) - Len(processed)
    /\ \A k \in DOMAIN WORK_Q : WORK_Q[k] = enqueued[Len(processed) + k].job
    /\ \A i, j \in DOMAIN enqueued :
        (i < j /\ enqueued[i].obs = enqueued[j].obs)
            => enqueued[i].seq < enqueued[j].seq

\* a.pdf's event came first, while the file was still being written, and
\* b.pdf's second; both Jobs were on the queue and a.pdf's was taken first.
C16_Witness ==
    /\ Len(enqueued) = 2
    /\ enqueued[1].job.path = PathOf("A", "a", ".pdf")
    /\ enqueued[1].seq = 0
    /\ enqueued[2].seq = 1
    /\ Len(processed) = 1
    /\ processed[1].path = PathOf("A", "a", ".pdf")
    /\ Len(WORK_Q) = 1
    /\ wk.pc = "process"

\* C17: the queue's count of unfinished tasks is the number of Jobs put
\* minus the number of Jobs the worker is done with, it is never negative,
\* and whenever the worker is between two Jobs (about to dequeue, or ended)
\* every Job it took has been marked done, on success and on every failure.
C17_TaskDoneOncePerJob ==
    LET InHand == IF wk.pc \in {"process", "resolve", "write", "move",
                                "except", "task_done"} THEN 1 ELSE 0
    IN /\ unfinished_tasks = Len(enqueued) - (Len(processed) - InHand)
       /\ unfinished_tasks >= 0
       /\ wk.pc \in {"loop", "get", "exit", "crashed"}
            => unfinished_tasks = Len(WORK_Q)

\* Two Jobs are done, one with a result and one with an error artifact, and
\* the count is back at zero.
C17_Witness ==
    /\ Len(processed) = 2
    /\ wk.pc = "loop"
    /\ unfinished_tasks = 0
    /\ \E i, j \in DOMAIN processed :
        /\ i # j
        /\ IsFile(fs, JsonPath(processed[i]))
        /\ ~IsFile(fs, ErrPath(processed[i]))
        /\ IsFile(fs, ErrPath(processed[j]))

\* C18: a Job never leaves both a .json result and an .err.txt artifact.
\* (With one Job taken so far, both artifacts are that Job's.)
C18_JsonOrErrNotBoth ==
    Len(processed) = 1
        => ~(/\ IsFile(fs, JsonPath(processed[1]))
             /\ IsFile(fs, ErrPath(processed[1])))

\* C20: when the stat of the stability probe or the read of the hashing
\* fails because the file is gone, the callback ends there: that step changes
\* neither the dedup set nor the queue nor any file, and nothing comes of the
\* event afterwards.
C20_DetectionErrorChangesNothing ==
    [][\A o \in DOMAIN cb :
        /\ (/\ cb[o].pc \in {"probe", "hash"}
            /\ (IF cb[o].ev.typ = "moved" THEN cb[o].ev.dest_path
                ELSE cb[o].ev.src_path) \notin DOMAIN fs
            /\ cb'[o] # cb[o])
            => /\ cb'[o].pc \in {"dead", "idle"}
               /\ SEEN_HASHES' = SEEN_HASHES
               /\ WORK_Q' = WORK_Q
               /\ unfinished_tasks' = unfinished_tasks
               /\ enqueued' = enqueued
               /\ fs' = fs
        /\ cb[o].pc = "dead" => cb'[o] = cb[o]]_vars

\* A file was deleted under the probe: the callback has ended and there is
\* no fingerprint, no Job and no file.
C20_Witness ==
    \E o \in DOMAIN cb :
        /\ cb[o].pc = "dead"
        /\ arrivals = 1
        /\ SEEN_HASHES = {}
        /\ enqueued = <<>>
        /\ fs = <<>>

\* C19: a start whose start_watch raises returns the error (HTTP 400) to
\* its caller in the same call and leaves the registry and the observers as
\* they were; and a start whose key is not registered, as after such a
\* failure, goes on to start_watch instead of reporting already_watching.
C19_FailedStartRegistersNothing ==
    [][\A t \in Threads :
        /\ (api[t].pc = "start_watch" /\ api'[t].pc = "idle")
            => /\ api'[t].ret.status = "400"
               /\ OBSERVERS' = OBSERVERS
               /\ observer' = observer
               /\ cb' = cb
               /\ evq' = evq
        /\ (api[t].pc = "start_check" /\ api[t].key \notin DOMAIN OBSERVERS
            /\ api'[t] # api[t] /\ api'[t].ret.status # "500")
            => /\ api'[t].pc = "start_watch"
               /\ api'[t].key = api[t].key]_vars

\* A start has failed with nothing registered and no observer left behind,
\* and a start of A|R is past the registry test, about to call start_watch.
C19_Witness ==
    \E t, u \in Threads :
        /\ api[t].ret.status = "400"
        /\ OBSERVERS = <<>>
        /\ observer = <<>>
        /\ api[u].pc = "start_watch"
        /\ api[u].key = "A|R"

\* C21, as far as a finite run can refute it: a detection-layer error in one
\* callback does not end the watch, so no complete, allowed file whose
\* content was never fingerprinted lies in the folder of a listed watch whose
\* callback thread has ended.
C21_ErrorDoesNotEndWatch ==
    \A k \in DOMAIN OBSERVERS :
        cb[OBSERVERS[k]].pc = "dead"
            => \A p \in DOMAIN fs :
                (/\ p.parent = observer[OBSERVERS[k]].folder
                 /\ Accepts(fs, p)
                 /\ p \notin writing)
                    => Sha1(fs[p]) \in SEEN_HASHES

\* C22: a listing of the active watches that runs while start, stop and
\* stop_all run never fails: no GET /watch/status ends in an error.
C22_ListNeverFails ==
    [][\A t \in Threads :
        api[t].pc = "status_check" => api'[t].ret.status # "500"]_vars

\* C23: two different (folder, recipe_ref) pairs never have the same key, so
\* a start is reported as already watching only when the watch registered
\* under its key was started for its own folder and its own recipe_ref.
C23_KeyNamesOnePair ==
    [][\A t \in Threads :
        (api[t].pc = "start_check"
         /\ api'[t].ret.status = "already_watching")
            => /\ observer[OBSERVERS[api[t].key]].folder = api[t].folder
               /\ observer[OBSERVERS[api[t].key]].recipe_ref
                      = api[t].recipe_ref]_vars

\* C24: the worker writes a Job's result under job.out_dir when the watch
\* set one and otherwise under what the default provider gives when the Job
\* is processed, and its error file under the Errors directory of the
\* directory resolved the same way in the except clause; it writes nothing
\* else there, and a Job with an override writes nothing under the default.
C24_OutputUnderEffectiveDir ==
    [][wk' # wk =>
        /\ (wk.pc = "resolve" /\ wk'.pc = "write")
            => wk'.out_root = IF wk.job.out_dir # None THEN wk.job.out_dir
                              ELSE default_out_dir
        /\ wk.pc = "write"
            => \A q \in DOMAIN fs' :
                (q \notin DOMAIN fs \/ fs'[q] # fs[q])
                    => q = PathOf(wk.out_root, wk.job.path.stem, ".json")
        /\ wk.pc = "except"
            => \A q \in DOMAIN fs' :
                (q \notin DOMAIN fs \/ fs'[q] # fs[q])
                    => q = PathOf((IF wk.job.out_dir # None
                                   THEN wk.job.out_dir
                                   ELSE default_out_dir) \o "/Errors",
                                  PathName(wk.job.path) \o ".err", ".txt")
        /\ (/\ wk.pc \in {"process", "resolve", "write", "move", "except",
                         "task_done"}
            /\ wk.job.out_dir # None)
            => \A q \in DOMAIN fs' :
                (q \notin DOMAIN fs \/ fs'[q] # fs[q])
                    => q.parent \notin {default_out_dir,
                                        default_out_dir \o "/Errors"}]_vars

\* The Job being processed was enqueued without an override while the
\* default was another directory than the one its result has been written
\* under, and the Job before it left an error file under the default of
\* its own processing time.
C24_Witness ==
    /\ wk.pc \in {"move", "task_done"}
    /\ wk.err = None
    /\ wk.job.out_dir = None
    /\ Len(processed) = 2
    /\ enqueued[2].job = wk.job
    /\ enqueued[2].dflt # wk.out_root
    /\ IsFile(fs, PathOf(wk.out_root, wk.job.path.stem, ".json"))
    /\ ~IsFile(fs, PathOf(enqueued[2].dflt, wk.job.path.stem, ".json"))
    /\ IsFile(fs, ErrIn(enqueued[2].dflt, processed[1].path))

\* C25: once _STOP is set the worker loop ends, by leaving the while loop
\* or by an exception of its except clause; an idle worker leaves it at the
\* test that follows the dequeue that timed out, a worker with a Job at the
\* test that follows that Job; and a worker that has seen _STOP set takes
\* no Job from the queue any more.
C25_WorkerExitsAfterShutdown ==
    /\ STOP ~> wk.pc \in {"exit", "crashed"}
    /\ [][/\ (wk.pc = "get" /\ WORK_Q = <<>> /\ wk' # wk) => wk'.pc = "loop"
          /\ (wk.pc = "task_done" /\ wk' # wk)
                => wk'.pc \in {"loop", "crashed"}
          /\ (wk.pc = "loop" /\ STOP /\ wk' # wk) => wk'.pc = "exit"
          /\ wk.pc = "exit"
                => /\ wk' = wk
                   /\ processed' = processed
                   /\ Len(WORK_Q') >= Len(WORK_Q)]_vars

\* The worker has left its loop after _STOP was set although a Job is
\* still in the queue, and it had processed a Job before.
C25_Witness ==
    /\ STOP
    /\ wk.pc = "exit"
    /\ WORK_Q # <<>>
    /\ Len(processed) = 1

\* C26: a step of the worker changes a file of a watched folder or of its
\* Processed directory only when it is the relocation of the source of a
\* Job whose result has been written, with move_original enabled; with
\* move_original disabled, and on every failure, the worker leaves the
\* source and Processed as they are.
C26_RelocatesOnlyOnSuccess ==
    [][wk' # wk =>
        \A q \in DOMAIN fs \cup DOMAIN fs' :
            (/\ \E f \in Folders : q.parent \in {f, f \o "/Processed"}
             /\ \/ (q \in DOMAIN fs) # (q \in DOMAIN fs')
                \/ fs[q] # fs'[q])
                => /\ move_original
                   /\ wk.pc = "move"
                   /\ wk.err = None
                   /\ IsFile(fs, JsonIn(wk.out_root, wk.job.path))
                   /\ q = wk.job.path \/ InProcessed(wk.job.path, q)]_vars

\* With move_original disabled the worker is done with two Jobs, the first
\* failed and the second succeeded: both sources are where they arrived and
\* nothing is under Processed.
C26_Witness ==
    /\ ~move_original
    /\ Len(processed) = 2
    /\ wk.pc = "task_done"
    /\ wk.err = None
    /\ IsFile(fs, JsonIn(wk.out_root, wk.job.path))
    /\ IsFile(fs, wk.job.path)
    /\ IsFile(fs, ErrPath(processed[1]))
    /\ IsFile(fs, processed[1].path)
    /\ \A q \in DOMAIN fs : q.parent # "A/Processed"

\* C27: _file_is_stable returns only True, and only at a reading that ends
\* checks + 1 equal readings in a row; its counter is zero after the first
\* reading and after every reading that differs from the one before, and one
\* more after every other; so it does not return while every reading
\* differs from the one before.
C27_StableAfterEqualReadings ==
    [][\A o \in DOMAIN cb :
        (cb[o].pc = "probe" /\ cb'[o] # cb[o])
            => LET r == cb'[o].reads
                   n == Len(r)
               IN /\ cb'[o].pc \in {"probe", "hash", "dead"}
                  /\ cb'[o].pc # "dead"
                        => /\ r = Keep(cb[o].reads, fs[EventPath(cb[o].ev)].sz)
                           /\ cb'[o].stable =
                                IF n = 1 \/ r[n] # r[n - 1] THEN 0
                                ELSE cb[o].stable + 1
                  /\ cb'[o].pc = "hash"
                        <=> /\ cb'[o].pc # "dead"
                            /\ n > checks
                            /\ \A i \in (n - checks) .. n : r[i] = r[n]]_vars

\* A probe has returned for a file that grew while it was polled: the
\* readings before the last checks + 1 include a differing one.
C27_Witness ==
    \E o \in DOMAIN cb :
        /\ cb[o].pc = "hash"
        /\ Len(cb[o].reads) > checks + 1
        /\ \E i \in 1 .. (Len(cb[o].reads) - 1) :
                cb[o].reads[i] # cb[o].reads[i + 1]

\* C28: a callback that is still busy with one file takes no later event of
\* its own watch from the queue, whatever arrives; and a file that has
\* arrived in B is fingerprinted and enqueued in the end, also while the
\* callback of A polls a file that never keeps its size.
C28_WatchersAreIsolated ==
    /\ [][\A o \in DOMAIN cb :
            cb[o].pc \notin {"idle", "dead"}
                => /\ cb'[o].pc = "idle" \/ cb'[o].ev = cb[o].ev
                   /\ Len(evq'[o]) >= Len(evq[o])
                   /\ SubSeq(evq'[o], 1, Len(evq[o])) = evq[o]]_vars
    /\ IsFile(fs, PathOf("B", "b", ".pdf"))
            ~> \E i \in DOMAIN enqueued :
                    /\ enqueued[i].job.path = PathOf("B", "b", ".pdf")
                    /\ enqueued[i].job.sha1 = Sha1([c |-> "Y", sz |-> FullSize])

\* The callback of A has polled a.pdf again and again without two equal
\* readings, and the file that arrived in B after a.pdf is enqueued.
C28_Witness ==
    \E o \in DOMAIN cb, i \in DOMAIN enqueued :
        /\ observer[o].folder = "A"
        /\ cb[o].pc = "probe"
        /\ EventPath(cb[o].ev) = PathOf("A", "a", ".pdf")
        /\ Len(cb[o].reads) = Window
        /\ \A j \in 1 .. (Window - 1) : cb[o].reads[j] # cb[o].reads[j + 1]
        /\ enqueued[i].job.path = PathOf("B", "b", ".pdf")
        /\ enqueued[i].seq > cb[o].ev.seq

\* C29, its last part: while a callback of the watch is still polling a
\* file, no stop of that watch returns "stopped".
C29_StopWaitsForProbe ==
    [][\A t \in Threads :
        (api[t].op = "stop" /\ api'[t].ret.status = "stopped")
            => \A o \in DOMAIN observer :
                    observer[o].key = api[t].key => cb[o].pc # "probe"]_vars

\* C30: between two requests a key is either listed, with exactly one
\* observer of its own that has not terminated, the listed one (Watching), or
\* not listed, with every observer it ever had terminated (Stopped).  The
\* registry changes only when a start adds its key, which was not listed,
\* with an observer constructed in that call, and when a stop removes its
\* key, which was listed; and events are queued never for an observer that
\* has terminated, and between two requests only for the listed one.
C30_StoppedOrWatching ==
    /\ [](api[Host].pc = "idle" =>
            \A k \in {observer[o].key : o \in DOMAIN observer} :
                LET live == {o \in DOMAIN observer :
                                /\ observer[o].key = k
                                /\ observer[o].state # "terminated"}
                IN IF k \in DOMAIN OBSERVERS
                   THEN live = {OBSERVERS[k]}
                   ELSE live = {})
    /\ [][/\ OBSERVERS' # OBSERVERS
                => LET k == api[Host].key IN
                   \/ /\ api[Host].pc = "register"
                      /\ k \notin DOMAIN OBSERVERS
                      /\ DOMAIN OBSERVERS' = DOMAIN OBSERVERS \cup {k}
                      /\ OBSERVERS'[k] = Len(observer)
                      /\ observer[OBSERVERS'[k]].state = "running"
                      /\ api'[Host].ret.status = "watching"
                   \/ /\ api[Host].pc = "stop_pop"
                      /\ k \in DOMAIN OBSERVERS
                      /\ DOMAIN OBSERVERS' = DOMAIN OBSERVERS \ {k}
          /\ \A o \in DOMAIN evq :
                Len(evq'[o]) > Len(evq[o])
                    => /\ observer[o].state # "terminated"
                       /\ api[Host].pc = "idle"
                            => /\ observer[o].key \in DOMAIN OBSERVERS
                               /\ OBSERVERS[observer[o].key] = o]_vars

\* The watch on A was stopped and started again: its first observer has
\* terminated, the key is listed with the second one, and a file that
\* arrived after the restart was enqueued by the second observer.
C30_Witness ==
    /\ Len(observer) = 2
    /\ observer[1].state = "terminated"
    /\ DOMAIN OBSERVERS = {Key("A", "R")}
    /\ OBSERVERS[Key("A", "R")] = 2
    /\ observer[2].state = "running"
    /\ api[Host].ret.status = "watching"
    /\ evq[1] = <<>>
    /\ \E i \in DOMAIN enqueued : enqueued[i].obs = 2

\* C31: a Job whose result is written leaves <out_root>/<stem>.json holding
\* its own result, whatever was under that name before, and no other step
\* creates or changes a .json file; so the artifact of two Jobs with one
\* stem and one output directory holds the result of the one written last.
C31_LastResultOverwrites ==
    [][/\ (wk.pc = "write" /\ wk'.pc # "except" /\ wk' # wk)
            => /\ IsFile(fs', JsonIn(wk.out_root, wk.job.path))
               /\ fs'[JsonIn(wk.out_root, wk.job.path)] = Artifact(wk.result)
               /\ wk.result = <<"ocr", wk.job.sha1[2]>>
       /\ \A q \in DOMAIN fs' :
            (q.suffix = ".json" /\ (q \notin DOMAIN fs \/ fs'[q] # fs[q]))
                => /\ wk.pc = "write"
                   /\ q = JsonIn(wk.out_root, wk.job.path)]_vars

\* Two Jobs with the stem a and different contents were processed with
\* success into one directory: the first source is in Processed, and a.json
\* holds the result of the second.
C31_Witness ==
    /\ Len(processed) = 2
    /\ wk.pc = "task_done"
    /\ wk.err = None
    /\ wk.job = processed[2]
    /\ processed[1].path.stem = processed[2].path.stem
    /\ processed[1].sha1[2] # processed[2].sha1[2]
    /\ \E q \in DOMAIN fs :
            /\ InProcessed(processed[1].path, q)
            /\ fs[q].c = processed[1].sha1[2]
    /\ ~IsFile(fs, ErrPath(processed[1]))
    /\ fs[JsonPath(processed[2])].c = <<"ocr", processed[2].sha1[2]>>

\* C32: every file in a Processed directory is the source of a Job the
\* worker took, and the <stem>.json of that Job is in its effective output
\* directory: the source is relocated only after the result was written.
C32_MovedOnlyAfterJson ==
    \A q \in DOMAIN fs :
        (\E f \in Folders : q.parent = f \o "/Processed")
            => \E i \in DOMAIN processed :
                    /\ InProcessed(processed[i].path, q)
                    /\ fs[q].c = processed[i].sha1[2]
                    /\ IsFile(fs, JsonPath(processed[i]))
                    /\ fs[JsonPath(processed[i])].c[1] = "ocr"

\* The worker has just relocated a source: it is in Processed and its
\* result is in the output directory.
C32_Witness ==
    /\ wk.pc = "task_done"
    /\ wk.err = None
    /\ ~IsFile(fs, wk.job.path)
    /\ \E q \in DOMAIN fs :
            /\ InProcessed(wk.job.path, q)
            /\ fs[q].c = wk.job.sha1[2]
    /\ fs[JsonPath(wk.job)].c = <<"ocr", wk.job.sha1[2]>>

\* C33: no step removes a fingerprint from the dedup set, and the
\* fingerprint of every Job on the queue and of the Job the worker is busy
\* with is in the dedup set.
C33_DedupSetGrowsAndCoversQueue ==
    /\ [](/\ \A i \in DOMAIN WORK_Q : WORK_Q[i].sha1 \in SEEN_HASHES
          /\ wk.pc \in {"process", "resolve", "write", "move", "except",
                         "task_done"}
                => wk.job.sha1 \in SEEN_HASHES)
    /\ [][SEEN_HASHES \subseteq SEEN_HASHES']_vars

\* After a Job that failed, a stop of the watch and request_shutdown, the
\* fingerprints of the failed Job and of the Job left on the queue are in
\* the dedup set.
C33_Witness ==
    /\ STOP
    /\ api[Host].ret.status = "shutdown"
    /\ \E o \in DOMAIN observer : observer[o].state = "terminated"
    /\ Len(processed) = 1
    /\ IsFile(fs, ErrPath(processed[1]))
    /\ processed[1].sha1 \in SEEN_HASHES
    /\ wk.pc \in {"loop", "exit"}
    /\ Len(WORK_Q) = 1
    /\ Cardinality(SEEN_HASHES) = 2

\* C34: a callback that tests the fingerprint of a Job the worker has
\* taken, a failed one included, drops its event and enqueues nothing; and
\* the worker puts nothing on the queue.  An event that comes after the
\* failure of a Job is tested after it, so it produces no new Job.
C34_FailedNeverRetried ==
    [][/\ \A o \in DOMAIN cb :
            (/\ cb[o].pc = "check"
             /\ cb'[o] # cb[o]
             /\ \E i \in DOMAIN processed : processed[i].sha1 = cb[o].digest)
                => /\ cb'[o] = IdleCb
                   /\ enqueued' = enqueued
                   /\ WORK_Q' = WORK_Q
                   /\ \E d \in dropped' \ dropped :
                        d.obs = o /\ d.digest = cb[o].digest
       /\ Len(WORK_Q') > Len(WORK_Q)
            => /\ wk' = wk
               /\ \E o \in DOMAIN cb : cb[o].pc = "put" /\ cb'[o] = IdleCb]_vars

\* A Job failed and its original was left in place; a later event for a
\* file of the same content was dropped, and the failed Job is the only one
\* that was ever enqueued.
C34_Witness ==
    /\ Len(enqueued) = 1
    /\ Len(processed) = 1
    /\ wk.pc \in {"loop", "get"}
    /\ IsFile(fs, ErrPath(processed[1]))
    /\ ~IsFile(fs, JsonPath(processed[1]))
    /\ IsFile(fs, processed[1].path)
    /\ WORK_Q = <<>>
    /\ \E d \in dropped :
            /\ d.digest = processed[1].sha1
            /\ d.ev.stamp = 1
            /\ d.ev.seq > enqueued[1].seq

\* C35: the handler runs _maybe_enqueue for created and moved events only,
\* and a Job is enqueued only by a callback that handles such an event; so a
\* file that is in the folder when the watch is started and is only modified
\* afterwards is never enqueued.
C35_OnlyCreateAndMoveEnqueue ==
    /\ [](/\ \A i \in DOMAIN enqueued : enqueued[i].job.path # OldPath
          /\ \A o \in DOMAIN cb :
                cb[o].pc \notin {"idle", "dead"}
                    => cb[o].ev.typ \in {"created", "moved"})
    /\ [][Len(enqueued') > Len(enqueued)
            => \E o \in DOMAIN cb :
                    /\ cb[o].pc = "put"
                    /\ cb[o].ev.typ \in {"created", "moved"}
                    /\ enqueued'[Len(enqueued')].job.path = cb[o].ev.src_path
                    /\ cb[o].ev.src_path # OldPath]_vars

\* The file that was in A before the start was modified and the event was
\* taken by the dispatcher: nothing was enqueued for it, while the file that
\* arrived afterwards was enqueued.
C35_Witness ==
    /\ DOMAIN OBSERVERS = {Key("A", "R")}
    /\ observer[1].state = "running"
    /\ arrivals = 2
    /\ IsFile(fs, OldPath)
    /\ evq[1] = <<>>
    /\ cb[1].pc = "idle"
    /\ dropped = {}
    /\ Len(enqueued) = 1
    /\ enqueued[1].job.path = NewPath
    /\ enqueued[1].seq = 0
    /\ enqueued[1].job.sha1[2] # fs[OldPath].c

\* C36: no Job is ever enqueued for a file in a Processed directory, that
\* is, the relocation of a processed file never results in a new Job,
\* whether or not Processed is watched.
C36_RelocationMakesNoJob ==
    \A i \in DOMAIN enqueued :
        enqueued[i].job.path.parent \notin {ProcessedDir(PathOf(f, "a", ".pdf")) :
                                               f \in LoopFolders}

\* C37: no step removes or changes a file that is in a Processed
\* directory, and the number of files there grows by exactly one with every
\* successful relocation and with no other step.
C37_ProcessedOnlyGrows ==
    [][LET Kept(fsys) == {q \in DOMAIN fsys :
                            \E f \in Folders : q.parent = f \o "/Processed"}
       IN /\ \A q \in Kept(fs) : q \in DOMAIN fs' /\ fs'[q] = fs[q]
          /\ Cardinality(Kept(fs')) =
                Cardinality(Kept(fs))
                    + (IF wk.pc = "move" /\ wk'.pc = "task_done" THEN 1 ELSE 0)
      ]_vars

\* Processed held a.pdf and "a (1).pdf" of earlier runs; a relocation has
\* just added "a (2).pdf" and both earlier files are as they were.
C37_Witness ==
    /\ wk.pc = "task_done"
    /\ wk.err = None
    /\ Len(processed) = 1
    /\ ~IsFile(fs, wk.job.path)
    /\ {q \in DOMAIN fs : q.parent = ProcessedDir(wk.job.path)}
            = {Dest(wk.job.path, 0), Dest(wk.job.path, 1),
               Dest(wk.job.path, 2)}
    /\ fs[Dest(wk.job.path, 0)] = OldFile
    /\ fs[Dest(wk.job.path, 1)] = OldFile
    /\ fs[Dest(wk.job.path, 2)].c = wk.job.sha1[2]

\* C38 as stated: once the shutdown flag is set it stays set, the worker
\* takes no Job from the queue any more, and every Job that was enqueued
\* with the flag set is still on the queue.
C38_NoDequeueOnceFlagSet ==
    /\ [][STOP => STOP' /\ processed' = processed]_vars
    /\ [](\A i \in DOMAIN enqueued :
            enqueued[i].stop
                => \E k \in DOMAIN WORK_Q : WORK_Q[k] = enqueued[i].job)

\* C38, amended: the flag stays set; the worker goes to a dequeue only from
\* a test that found the flag unset, so with the flag set it takes at most
\* the one Job of the dequeue it was in, a test that finds the flag set ends
\* the loop with the queue as it is, and after that the worker takes
\* nothing: every Job on the queue stays there.
C38_FlagStaysSetLoopEndsAtNextTest ==
    [][/\ STOP => STOP'
       /\ (wk.pc # "get" /\ wk'.pc = "get") => (wk.pc = "loop" /\ ~STOP)
       /\ Len(processed') > Len(processed) => wk.pc = "get"
       /\ (wk.pc = "loop" /\ STOP /\ wk' # wk)
            => /\ wk'.pc = "exit"
               /\ WORK_Q' = WORK_Q
               /\ processed' = processed
       /\ wk.pc = "exit"
            => /\ wk'.pc = "exit"
               /\ processed' = processed
               /\ \A k \in DOMAIN WORK_Q :
                    k \in DOMAIN WORK_Q' /\ WORK_Q'[k] = WORK_Q[k]]_vars

\* request_shutdown has returned with the observer joined; the worker, which
\* was in its dequeue when the flag was set, took the Job that was enqueued
\* after the flag and then left the loop, and the Job enqueued after that is
\* on the queue.
C38_Witness ==
    /\ STOP
    /\ api[Host].ret.status = "shutdown"
    /\ \A o \in DOMAIN observer : observer[o].state = "terminated"
    /\ wk.pc = "exit"
    /\ Len(enqueued) = 2
    /\ enqueued[1].stop
    /\ enqueued[2].stop
    /\ processed = <<enqueued[1].job>>
    /\ WORK_Q = <<enqueued[2].job>>

\* C39: a webhook job is created Queued with neither result nor error; its
\* status changes only from Queued to Running and from Running to Completed
\* or to Failed, so Completed and Failed are final, also when the callback
\* fails; result is set only with the status Completed and error only with
\* the status Failed; and no job is ever removed.
C39_WebhookJobLifecycle ==
    /\ [](\A j \in DOMAIN JOBS :
            /\ JOBS[j].result # None => JOBS[j].status = "Completed"
            /\ JOBS[j].error # None => JOBS[j].status = "Failed")
    /\ [][/\ DOMAIN JOBS \subseteq DOMAIN JOBS'
          /\ \A j \in DOMAIN JOBS' \ DOMAIN JOBS :
                JOBS'[j] = [status |-> "Queued", result |-> None,
                            error |-> None]
          /\ \A j \in DOMAIN JOBS :
                JOBS'[j].status # JOBS[j].status
                    => <<JOBS[j].status, JOBS'[j].status>>
                            \in {<<"Queued", "Running">>,
                                 <<"Running", "Completed">>,
                                 <<"Running", "Failed">>}]_vars

\* Two jobs are done: the callback of the first failed and the job is
\* Completed with its result and no error; the second is Failed with its
\* error and no result.
C39_Witness ==
    /\ Len(JOBS) = 2
    /\ task[1].pc = "done"
    /\ task[1].posted = "failed"
    /\ JOBS[1].status = "Completed"
    /\ JOBS[1].result # None
    /\ JOBS[1].error = None
    /\ task[2].pc = "done"
    /\ JOBS[2].status = "Failed"
    /\ JOBS[2].error # None
    /\ JOBS[2].result = None

====
